---- MODULE Spec2Model ----
(***************************************************************************)
(* DraftPlan: the hierarchical scene graph (lib/hierarchy transforms and   *)
(* operations), the project store with its undo/redo history, and the      *)
(* canvas / gizmo drag gestures that drive the store.                      *)
(*                                                                         *)
(* Node ids are positive integers; None (0) stands for an absent / falsy   *)
(* parentId.  Coordinates are integers, so vector arithmetic is exact.     *)
(* A node is a record; the JavaScript tests  'childIds' in node  and       *)
(* 'localPosition' in node  are tests on the record's DOMAIN.              *)
(***************************************************************************)
EXTENDS Integers, Sequences, FiniteSets, TLC

VARIABLES
    hObjects,        \* SpecHierarchy: the objects array handed to lib/hierarchy
    hAssemblies,     \* SpecHierarchy: the assemblies array handed to lib/hierarchy
    hLast,           \* SpecHierarchy: the last library call (name, arguments, arrays before)
    tabs,            \* store: ProjectTab[]
    activeTabIndex,  \* store: index of the active tab (1-based here)
    nextId,          \* store: stands for Date.now(), the source of fresh ids
    last,            \* store: the last store call, its arguments and the tab before it
    ui               \* Canvas / TransformGizmo component state during a gesture

vars == <<hObjects, hAssemblies, hLast, tabs, activeTabIndex, nextId, last, ui>>

(***************************************************************************)
(* Bounds                                                                  *)
(***************************************************************************)
MaxNodes == 3        \* nodes of a hierarchy / nodes ever created in a document
MaxSteps == 3        \* store calls explored from the empty document
MaxMoves == 2        \* pointer-move events explored in one gesture

None == 0
Ids == 1 .. MaxNodes
GhostId == MaxNodes + 1          \* an id that never names a node
AnyId == Ids \cup {GhostId}
ParentArgs == AnyId \cup {None}

Vec(x, y, z) == [x |-> x, y |-> y, z |-> z]
Zero == Vec(0, 0, 0)

\* local positions and rotations that inputs are drawn from
Placements ==
    { [localPosition |-> Vec(10, 0, 0), rotation |-> Vec(0, 0, 90)],
      [localPosition |-> Vec(2, 3, 0),  rotation |-> Zero] }
WorldDeltas == { Vec(1, 0, 0), Vec(0, -2, 5) }

(***************************************************************************)
(* lib/hierarchy/transforms.ts                                             *)
(***************************************************************************)
NotFound == [id |-> None]

\* objects.find(...) then assemblies.find(...)
findNode(nodeId, objects, assemblies) ==
    LET os == SelectSeq(objects, LAMBDA o : o.id = nodeId)
        as == SelectSeq(assemblies, LAMBDA a : a.id = nodeId)
    IN  IF Len(os) > 0 THEN os[1]
        ELSE IF Len(as) > 0 THEN as[1]
        ELSE NotFound

addVectors(a, b) == Vec(a.x + b.x, a.y + b.y, a.z + b.z)

subtractVectors(a, b) == Vec(a.x - b.x, a.y - b.y, a.z - b.z)

IdentityTransform == [position |-> Zero, rotation |-> Zero]

\* The recursion of computeWorldTransform never returns (the call stack
\* overflows) exactly when the parentId chain from nodeId runs through more
\* position-carrying nodes than the arrays hold.
RECURSIVE chainOverflows(_, _, _, _)
chainOverflows(nodeId, objects, assemblies, fuel) ==
    LET node == findNode(nodeId, objects, assemblies)
    IN  IF node.id = None THEN FALSE
        ELSE IF "childIds" \in DOMAIN node THEN FALSE
        ELSE IF node.parentId = None THEN FALSE
        ELSE IF fuel = 0 THEN TRUE
        ELSE chainOverflows(node.parentId, objects, assemblies, fuel - 1)

computeWorldTransformOverflows(nodeId, objects, assemblies) ==
    chainOverflows(nodeId, objects, assemblies, Len(objects) + Len(assemblies))

\* mutant: the parent's rotation is not composed
RECURSIVE computeWorldTransform_localRotation(_, _, _)
computeWorldTransform_localRotation(nodeId, objects, assemblies) ==
    LET node == findNode(nodeId, objects, assemblies)
    IN  IF node.id = None THEN IdentityTransform
        ELSE IF "childIds" \in DOMAIN node THEN IdentityTransform
        ELSE IF node.parentId = None
             THEN [position |-> node.localPosition, rotation |-> node.rotation]
        ELSE [position |->
                  addVectors(computeWorldTransform_localRotation(
                                 node.parentId, objects, assemblies).position,
                             node.localPosition),
              rotation |-> node.rotation]

RECURSIVE computeWorldTransform(_, _, _)
computeWorldTransform(nodeId, objects, assemblies) ==
    LET node == findNode(nodeId, objects, assemblies)
    IN  IF node.id = None THEN IdentityTransform
        ELSE IF "childIds" \in DOMAIN node THEN IdentityTransform
        ELSE IF node.parentId = None
             THEN [position |-> node.localPosition, rotation |-> node.rotation]
        ELSE LET parentTransform ==
                     computeWorldTransform(node.parentId, objects, assemblies)
             IN  [position |-> addVectors(parentTransform.position, node.localPosition),
                  rotation |-> addVectors(parentTransform.rotation, node.rotation)]

\* mutant: the parent's world position is not subtracted
worldToLocalPosition_keepsWorld(worldPos, parentId, objects, assemblies) == worldPos

worldToLocalPosition(worldPos, parentId, objects, assemblies) ==
    IF parentId = None THEN worldPos
    ELSE subtractVectors(worldPos,
                         computeWorldTransform(parentId, objects, assemblies).position)

RECURSIVE Concat(_)
Concat(ss) == IF ss = <<>> THEN <<>> ELSE Head(ss) \o Concat(Tail(ss))

idsOf(nodes) == [i \in 1 .. Len(nodes) |-> nodes[i].id]

\* mutant: only the childIds of assemblies are followed
childrenPushed_childIdsOnly(currentId, objects, assemblies) ==
    LET currentNode == findNode(currentId, objects, assemblies)
    IN  IF currentNode.id = None THEN <<>>
        ELSE IF "childIds" \in DOMAIN currentNode THEN currentNode.childIds ELSE <<>>

\* what one iteration of the while loop of getDescendants pushes for currentId
childrenPushed(currentId, objects, assemblies) ==
    LET currentNode == findNode(currentId, objects, assemblies)
    IN  IF currentNode.id = None THEN <<>>
        ELSE (IF "childIds" \in DOMAIN currentNode THEN currentNode.childIds ELSE <<>>)
             \o
             (IF "localPosition" \in DOMAIN currentNode
              THEN idsOf(SelectSeq(objects, LAMBDA o : o.parentId = currentId))
                   \o idsOf(SelectSeq(assemblies, LAMBDA a : a.parentId = currentId))
              ELSE <<>>)

\* The queue of getDescendants is first-in first-out, so it is consumed one
\* generation after the other; generation k+1 is what the nodes of generation k
\* push, in order.
RECURSIVE generations(_, _, _, _)
generations(frontier, objects, assemblies, fuel) ==
    IF frontier = <<>> \/ fuel = 0 THEN <<>>
    ELSE LET next == Concat([i \in 1 .. Len(frontier) |->
                                childrenPushed(frontier[i], objects, assemblies)])
         IN  next \o generations(next, objects, assemblies, fuel - 1)

RECURSIVE generationsLeft(_, _, _, _)
generationsLeft(frontier, objects, assemblies, fuel) ==
    IF frontier = <<>> THEN FALSE
    ELSE IF fuel = 0 THEN TRUE
    ELSE generationsLeft(
             Concat([i \in 1 .. Len(frontier) |->
                        childrenPushed(frontier[i], objects, assemblies)]),
             objects, assemblies, fuel - 1)

\* the while loop never empties its queue: some generation beyond the number
\* of nodes is still non-empty, which only a cycle can produce
getDescendantsHangs(nodeId, objects, assemblies) ==
    /\ findNode(nodeId, objects, assemblies).id # None
    /\ generationsLeft(<<nodeId>>, objects, assemblies,
                       Len(objects) + Len(assemblies) + 1)

getDescendants(nodeId, objects, assemblies) ==
    IF findNode(nodeId, objects, assemblies).id = None THEN <<>>
    ELSE generations(<<nodeId>>, objects, assemblies,
                     Len(objects) + Len(assemblies) + 1)

\* One turn of the while loop of getAncestors: the test of
\* currentNode.parentId, the push, the lookup of the parent and the break.
\* A loop that has left stays where it is.
ancestorsTurn(loop, objects, assemblies) ==
    IF ~loop.running \/ loop.currentNode.parentId = None
    THEN [loop EXCEPT !.running = FALSE]
    ELSE LET parentNode == findNode(loop.currentNode.parentId, objects, assemblies)
         IN  [ancestors   |-> Append(loop.ancestors, loop.currentNode.parentId),
              currentNode |-> IF parentNode.id = None THEN loop.currentNode
                              ELSE parentNode,
              running     |-> parentNode.id # None]

\* the loop after `turns` turns: the first half of the turns, then the rest
RECURSIVE ancestorsTurns(_, _, _, _)
ancestorsTurns(loop, objects, assemblies, turns) ==
    IF turns = 0 THEN loop
    ELSE IF turns = 1 THEN ancestorsTurn(loop, objects, assemblies)
    ELSE LET firstHalf == ancestorsTurns(loop, objects, assemblies, turns \div 2)
         IN  IF ~firstHalf.running THEN firstHalf
             ELSE ancestorsTurns(firstHalf, objects, assemblies,
                                 turns - (turns \div 2))

\* the while loop of getAncestors; it spins forever on a parentId cycle, and
\* `fuel` turns are enough to tell
ancestorsFrom(currentNode, objects, assemblies, fuel) ==
    ancestorsTurns([ancestors |-> <<>>, currentNode |-> currentNode,
                    running |-> TRUE],
                   objects, assemblies, fuel).ancestors

getAncestors(nodeId, objects, assemblies) ==
    LET node == findNode(nodeId, objects, assemblies)
    IN  IF node.id = None THEN <<>>
        ELSE ancestorsFrom(node, objects, assemblies, Len(objects) + Len(assemblies) + 1)

getAncestorsHangs(nodeId, objects, assemblies) ==
    Len(getAncestors(nodeId, objects, assemblies)) > Len(objects) + Len(assemblies)

SeqContains(s, e) == \E i \in 1 .. Len(s) : s[i] = e

MaxDepth == 128

\* mutant: the descendant (cycle) check is missing
validateHierarchy_noCycleCheck(nodeId, newParentId, objects, assemblies) ==
    IF newParentId = None THEN [valid |-> TRUE, error |-> "none"]
    ELSE IF nodeId = newParentId THEN [valid |-> FALSE, error |-> "self"]
    ELSE IF Len(getAncestors(newParentId, objects, assemblies)) >= MaxDepth
         THEN [valid |-> FALSE, error |-> "depth"]
    ELSE [valid |-> TRUE, error |-> "none"]

validateHierarchy(nodeId, newParentId, objects, assemblies) ==
    IF newParentId = None THEN [valid |-> TRUE, error |-> "none"]
    ELSE IF nodeId = newParentId THEN [valid |-> FALSE, error |-> "self"]
    ELSE IF SeqContains(getDescendants(nodeId, objects, assemblies), newParentId)
         THEN [valid |-> FALSE, error |-> "cycle"]
    ELSE IF Len(getAncestors(newParentId, objects, assemblies)) >= MaxDepth
         THEN [valid |-> FALSE, error |-> "depth"]
    ELSE [valid |-> TRUE, error |-> "none"]

validateHierarchyHangs(nodeId, newParentId, objects, assemblies) ==
    /\ newParentId # None
    /\ nodeId # newParentId
    /\ \/ getDescendantsHangs(nodeId, objects, assemblies)
       \/ /\ ~SeqContains(getDescendants(nodeId, objects, assemblies), newParentId)
          /\ getAncestorsHangs(newParentId, objects, assemblies)

(***************************************************************************)
(* lib/hierarchy/operations.ts                                             *)
(***************************************************************************)
MapSeq(s, F(_)) == [i \in 1 .. Len(s) |-> F(s[i])]

\* { ...node, key: value }
WithField(node, key, value) ==
    [k \in DOMAIN node \cup {key} |-> IF k = key THEN value ELSE node[k]]

\* { ...node, ...updates }
Spread(node, updates) ==
    [k \in DOMAIN node \cup DOMAIN updates |->
        IF k \in DOMAIN updates THEN updates[k] ELSE node[k]]

IsObjectIn(id, objects) == \E i \in 1 .. Len(objects) : objects[i].id = id

hasChildIds(asm) == "childIds" \in DOMAIN asm

Remove(s, e) == SelectSeq(s, LAMBDA x : x # e)

\* reading asm.childIds of an assembly that has no such key and calling
\* .filter / .includes on it raises a TypeError
reparentNodeThrows(nodeId, newParentId, objects, assemblies) ==
    LET node == findNode(nodeId, objects, assemblies)
    IN  /\ validateHierarchy(nodeId, newParentId, objects, assemblies).valid
        /\ node.id # None
        /\ \/ /\ "localPosition" \in DOMAIN node
              /\ \/ computeWorldTransformOverflows(nodeId, objects, assemblies)
                 \/ /\ newParentId # None
                    /\ computeWorldTransformOverflows(newParentId, objects, assemblies)
           \/ /\ node.parentId # None
              /\ \E i \in 1 .. Len(assemblies) :
                    assemblies[i].id = node.parentId /\ ~hasChildIds(assemblies[i])
           \/ /\ newParentId # None
              /\ \E i \in 1 .. Len(assemblies) :
                    assemblies[i].id = newParentId /\ ~hasChildIds(assemblies[i])

reparentNode(nodeId, newParentId, objects, assemblies) ==
    LET node == findNode(nodeId, objects, assemblies)
        unchanged == [objects |-> objects, assemblies |-> assemblies]
    IN  IF ~validateHierarchy(nodeId, newParentId, objects, assemblies).valid
        THEN unchanged
        ELSE IF node.id = None THEN unchanged
        ELSE
          LET oldParentId == node.parentId
              isObject == "localPosition" \in DOMAIN node
              newLocalPosition ==
                  worldToLocalPosition(
                      computeWorldTransform(nodeId, objects, assemblies).position,
                      newParentId, objects, assemblies)
              updatedObjects ==
                  IF isObject
                  THEN MapSeq(objects, LAMBDA obj :
                          IF obj.id = nodeId
                          THEN [obj EXCEPT !.parentId = newParentId,
                                           !.localPosition = newLocalPosition]
                          ELSE obj)
                  ELSE objects
              asm1 ==
                  IF isObject THEN assemblies
                  ELSE MapSeq(assemblies, LAMBDA asm :
                          IF asm.id = nodeId
                          THEN [asm EXCEPT !.parentId = newParentId] ELSE asm)
              asm2 ==
                  IF oldParentId # None
                  THEN MapSeq(asm1, LAMBDA asm :
                          IF asm.id = oldParentId
                          THEN [asm EXCEPT !.childIds = Remove(@, nodeId)] ELSE asm)
                  ELSE asm1
              asm3 ==
                  IF newParentId # None
                  THEN MapSeq(asm2, LAMBDA asm :
                          IF asm.id = newParentId /\ ~SeqContains(asm.childIds, nodeId)
                          THEN [asm EXCEPT !.childIds = Append(@, nodeId)] ELSE asm)
                  ELSE asm2
          IN  [objects |-> updatedObjects, assemblies |-> asm3]

\* mutant: the former parent's childIds is left as it was
deleteNodeCascade_keepsParentChildIds(nodeId, objects, assemblies) ==
    LET idsToDelete == <<nodeId>> \o getDescendants(nodeId, objects, assemblies)
    IN  [objects |-> SelectSeq(objects, LAMBDA obj : ~SeqContains(idsToDelete, obj.id)),
         assemblies |-> SelectSeq(assemblies, LAMBDA asm : ~SeqContains(idsToDelete, asm.id))]

deleteNodeCascade(nodeId, objects, assemblies) ==
    LET descendants == getDescendants(nodeId, objects, assemblies)
        idsToDelete == <<nodeId>> \o descendants
        updatedObjects == SelectSeq(objects, LAMBDA obj : ~SeqContains(idsToDelete, obj.id))
        updatedAssemblies ==
            SelectSeq(assemblies, LAMBDA asm : ~SeqContains(idsToDelete, asm.id))
        node == findNode(nodeId, objects, assemblies)
    IN  IF node.id # None /\ node.parentId # None
        THEN [objects |-> updatedObjects,
              assemblies |-> MapSeq(updatedAssemblies, LAMBDA asm :
                  IF asm.id = node.parentId
                  THEN [asm EXCEPT !.childIds = Remove(@, nodeId)] ELSE asm)]
        ELSE [objects |-> updatedObjects, assemblies |-> updatedAssemblies]

\* the parent is a surviving assembly without a childIds key
deleteNodeCascadeThrows(nodeId, objects, assemblies) ==
    LET node == findNode(nodeId, objects, assemblies)
        idsToDelete == <<nodeId>> \o getDescendants(nodeId, objects, assemblies)
    IN  /\ node.id # None
        /\ node.parentId # None
        /\ \E i \in 1 .. Len(assemblies) :
              /\ assemblies[i].id = node.parentId
              /\ ~SeqContains(idsToDelete, assemblies[i].id)
              /\ ~hasChildIds(assemblies[i])

\* mutant: the new world position is written as the local position
moveNodeInWorldSpace_writesWorld(nodeId, worldDelta, objects, assemblies) ==
    IF ~IsObjectIn(nodeId, objects) THEN [objects |-> objects, assemblies |-> assemblies]
    ELSE [objects |-> MapSeq(objects, LAMBDA obj :
                         IF obj.id = nodeId
                         THEN [obj EXCEPT !.localPosition =
                                  addVectors(computeWorldTransform(nodeId, objects,
                                                                   assemblies).position,
                                             worldDelta)]
                         ELSE obj),
          assemblies |-> assemblies]

moveNodeInWorldSpace(nodeId, worldDelta, objects, assemblies) ==
    LET found == SelectSeq(objects, LAMBDA obj : obj.id = nodeId)
    IN  IF Len(found) = 0 THEN [objects |-> objects, assemblies |-> assemblies]
        ELSE
          LET object == found[1]
              newWorldPosition ==
                  addVectors(computeWorldTransform(nodeId, objects, assemblies).position,
                             worldDelta)
              newLocalPosition ==
                  worldToLocalPosition(newWorldPosition, object.parentId, objects, assemblies)
          IN  [objects |-> MapSeq(objects, LAMBDA obj :
                              IF obj.id = nodeId
                              THEN [obj EXCEPT !.localPosition = newLocalPosition]
                              ELSE obj),
               assemblies |-> assemblies]

\* Array.prototype.splice's clamping of its start argument
spliceStart(start, len) ==
    IF start < 0 THEN (IF len + start < 0 THEN 0 ELSE len + start)
    ELSE IF start > len THEN len ELSE start

\* newChildIds.splice(fromIndex, 1) then newChildIds.splice(toIndex, 0, removed);
\* indices are 0-based as in the source, a removed element that does not exist
\* is undefined (None here)
spliceMove(childIds, fromIndex, toIndex) ==
    LET len == Len(childIds)
        f == spliceStart(fromIndex, len)
        removed == IF f < len THEN childIds[f + 1] ELSE None
        rest == IF f < len
                THEN SubSeq(childIds, 1, f) \o SubSeq(childIds, f + 2, len)
                ELSE childIds
        t == spliceStart(toIndex, Len(rest))
    IN  SubSeq(rest, 1, t) \o <<removed>> \o SubSeq(rest, t + 1, Len(rest))

reorderChildren(parentId, fromIndex, toIndex, objects, assemblies) ==
    IF parentId # None
    THEN [objects |-> objects,
          assemblies |-> MapSeq(assemblies, LAMBDA asm :
              IF asm.id = parentId
              THEN [asm EXCEPT !.childIds = spliceMove(@, fromIndex, toIndex)]
              ELSE asm)]
    ELSE [objects |-> objects, assemblies |-> assemblies]

\* [...asm.childIds] of an assembly without that key is a TypeError
reorderChildrenThrows(parentId, assemblies) ==
    /\ parentId # None
    /\ \E i \in 1 .. Len(assemblies) :
          assemblies[i].id = parentId /\ ~hasChildIds(assemblies[i])

(***************************************************************************)
(* SpecHierarchy: the library functions applied to well-typed hierarchies  *)
(* (types/index.ts: DraftObject, Assembly with childIds).                  *)
(***************************************************************************)
mkObject(id, parentId, placement) ==
    [id |-> id, parentId |-> parentId,
     localPosition |-> placement.localPosition, rotation |-> placement.rotation]

mkAssembly(id, parentId, childIds) ==
    [id |-> id, parentId |-> parentId, childIds |-> childIds,
     visible |-> TRUE, isExpanded |-> TRUE]

AllIds == [i \in 1 .. MaxNodes |-> i]

HNoCall == [op |-> "none", nodeId |-> None, newParentId |-> None, worldDelta |-> Zero,
            objects |-> <<>>, assemblies |-> <<>>, result |-> <<>>]

HCall(op, nodeId, newParentId) ==
    [HNoCall EXCEPT !.op = op, !.nodeId = nodeId, !.newParentId = newParentId,
                    !.objects = hObjects, !.assemblies = hAssemblies]

StoreIdle ==
    /\ tabs = <<>> /\ activeTabIndex = 1 /\ nextId = 1
    /\ last = [op |-> "none"] /\ ui = [phase |-> "off"]

\* a forest over MaxNodes nodes, every node an object or an assembly, the
\* childIds of every assembly listing exactly the nodes whose parentId it is;
\* a parentId may also name a node that is not in the arrays
HInit ==
    /\ \E kind \in [Ids -> {"object", "assembly"}],
          parent \in [Ids -> ParentArgs],
          place \in [Ids -> Placements] :
          /\ \A i \in Ids : parent[i] < i \/ parent[i] = GhostId
          /\ hObjects = MapSeq(SelectSeq(AllIds, LAMBDA i : kind[i] = "object"),
                               LAMBDA i : mkObject(i, parent[i], place[i]))
          /\ hAssemblies = MapSeq(SelectSeq(AllIds, LAMBDA i : kind[i] = "assembly"),
                                  LAMBDA i : mkAssembly(i, parent[i],
                                      SelectSeq(AllIds, LAMBDA j : parent[j] = i)))
    /\ hLast = HNoCall
    /\ StoreIdle

HReparentNode(nodeId, newParentId) ==
    /\ hLast.op = "none"
    /\ ~validateHierarchyHangs(nodeId, newParentId, hObjects, hAssemblies)
    /\ ~reparentNodeThrows(nodeId, newParentId, hObjects, hAssemblies)
    /\ LET r == reparentNode(nodeId, newParentId, hObjects, hAssemblies)
       IN  hObjects' = r.objects /\ hAssemblies' = r.assemblies
    /\ hLast' = HCall("reparentNode", nodeId, newParentId)
    /\ UNCHANGED <<tabs, activeTabIndex, nextId, last, ui>>

HDeleteNodeCascade(nodeId) ==
    /\ hLast.op = "none"
    /\ ~getDescendantsHangs(nodeId, hObjects, hAssemblies)
    /\ ~deleteNodeCascadeThrows(nodeId, hObjects, hAssemblies)
    /\ LET r == deleteNodeCascade(nodeId, hObjects, hAssemblies)
       IN  hObjects' = r.objects /\ hAssemblies' = r.assemblies
    /\ hLast' = HCall("deleteNodeCascade", nodeId, None)
    /\ UNCHANGED <<tabs, activeTabIndex, nextId, last, ui>>

HMoveNodeInWorldSpace(nodeId, worldDelta) ==
    /\ hLast.op = "none"
    /\ ~computeWorldTransformOverflows(nodeId, hObjects, hAssemblies)
    /\ LET r == moveNodeInWorldSpace(nodeId, worldDelta, hObjects, hAssemblies)
       IN  hObjects' = r.objects /\ hAssemblies' = r.assemblies
    /\ hLast' = [HCall("moveNodeInWorldSpace", nodeId, None) EXCEPT !.worldDelta = worldDelta]
    /\ UNCHANGED <<tabs, activeTabIndex, nextId, last, ui>>

HGetDescendants(nodeId) ==
    /\ hLast.op = "none"
    /\ ~getDescendantsHangs(nodeId, hObjects, hAssemblies)
    /\ hLast' = [HCall("getDescendants", nodeId, None)
                     EXCEPT !.result = getDescendants(nodeId, hObjects, hAssemblies)]
    /\ UNCHANGED <<hObjects, hAssemblies, tabs, activeTabIndex, nextId, last, ui>>

\* indices from the end, in range, and past the end of the childIds
ReorderIndices == { -1, 0, 2 }

HReorderChildren(parentId, fromIndex, toIndex) ==
    /\ hLast.op = "none"
    /\ ~reorderChildrenThrows(parentId, hAssemblies)
    /\ LET r == reorderChildren(parentId, fromIndex, toIndex, hObjects, hAssemblies)
       IN  hObjects' = r.objects /\ hAssemblies' = r.assemblies
    /\ hLast' = [HCall("reorderChildren", None, parentId)
                     EXCEPT !.result = <<fromIndex, toIndex>>]
    /\ UNCHANGED <<tabs, activeTabIndex, nextId, last, ui>>

HNext ==
    \/ \E n \in AnyId, p \in ParentArgs : HReparentNode(n, p)
    \/ \E p \in ParentArgs, f \in ReorderIndices, t \in ReorderIndices :
          HReorderChildren(p, f, t)
    \/ \E n \in AnyId : HGetDescendants(n)
    \/ \E n \in AnyId : HDeleteNodeCascade(n)
    \/ \E n \in AnyId, d \in WorldDeltas : HMoveNodeInWorldSpace(n, d)

SpecHierarchy == HInit /\ [][HNext]_vars

(***************************************************************************)
(* SpecDepth: reparentNode next to the depth limit.  The hierarchy is a    *)
(* chain of nested assemblies 1 <- 2 <- ... <- L (node i has i - 1         *)
(* ancestors) beside a root L + 1 with one child L + 2; L runs from Slack  *)
(* below MaxDepth to one above it, so that no node starts with more than   *)
(* MaxDepth ancestors.                                                     *)
(***************************************************************************)
Slack == 2

ChainLengths == (MaxDepth - Slack) .. (MaxDepth + 1)

DepthPlacement == [localPosition |-> Vec(2, 3, 0), rotation |-> Zero]

DInit ==
    /\ \E L \in ChainLengths, rootKind \in {"object", "assembly"},
          childKind \in {"object", "assembly"} :
          LET ids == [i \in 1 .. L + 2 |-> i]
              kind(i) == IF i <= L THEN "assembly"
                         ELSE IF i = L + 1 THEN rootKind ELSE childKind
              parent(i) == IF i = 1 \/ i = L + 1 THEN None
                           ELSE IF i = L + 2 THEN L + 1 ELSE i - 1
          IN  /\ hObjects = MapSeq(SelectSeq(ids, LAMBDA i : kind(i) = "object"),
                                   LAMBDA i : mkObject(i, parent(i), DepthPlacement))
              /\ hAssemblies = MapSeq(SelectSeq(ids, LAMBDA i : kind(i) = "assembly"),
                                      LAMBDA i : mkAssembly(i, parent(i),
                                          SelectSeq(ids, LAMBDA j : parent(j) = i)))
    /\ hLast = HNoCall
    /\ StoreIdle

ChainLen == Len(hObjects) + Len(hAssemblies) - 2

\* the nodes moved: the end of the chain, the second root and its child
DepthMovers == { ChainLen, ChainLen + 1, ChainLen + 2 }

\* the targets: the deep end of the chain, the second root and its child, no parent
DepthTargets ==
    ((ChainLen - Slack - 1) .. ChainLen) \cup { ChainLen + 1, ChainLen + 2, None }

DNext == \E n \in DepthMovers, p \in DepthTargets : HReparentNode(n, p)

SpecDepth == DInit /\ [][DNext]_vars

(***************************************************************************)
(* stores/projectStore.ts: operations on the active tab.  Each operator    *)
(* below is the function handed to zustand's set() and maps the active tab *)
(* to its replacement; an exception inside it leaves the store unchanged.  *)
(***************************************************************************)
createEmptyTab ==
    [objects |-> <<>>, assemblies |-> <<>>, selectedObjectIds |-> <<>>,
     undoStack |-> <<>>, redoStack |-> <<>>, hasUnsavedChanges |-> FALSE,
     camera |-> [currentView |-> "front", zoom |-> 1, panOffset |-> [x |-> 0, y |-> 0]]]

\* JSON.parse(JSON.stringify(...)) of the two arrays: a copy by value
createSnapshot(tab) == [objects |-> tab.objects, assemblies |-> tab.assemblies]

addObject(tab, object) ==
    [tab EXCEPT !.objects = Append(@, object),
                !.hasUnsavedChanges = TRUE,
                !.undoStack = Append(@, createSnapshot(tab)),
                !.redoStack = <<>>]

\* removeObject and deleteNode have the same body
deleteNode(tab, id) ==
    LET r == deleteNodeCascade(id, tab.objects, tab.assemblies)
    IN  [tab EXCEPT !.objects = r.objects,
                    !.assemblies = r.assemblies,
                    !.selectedObjectIds = Remove(@, id),
                    !.hasUnsavedChanges = TRUE,
                    !.undoStack = Append(@, createSnapshot(tab)),
                    !.redoStack = <<>>]

updateObject(tab, id, updates, skipHistory) ==
    IF ~IsObjectIn(id, tab.objects) THEN tab
    ELSE [tab EXCEPT !.objects = MapSeq(@, LAMBDA obj :
                                     IF obj.id = id THEN Spread(obj, updates) ELSE obj),
                     !.hasUnsavedChanges = TRUE,
                     !.undoStack = IF skipHistory THEN @ ELSE Append(@, createSnapshot(tab)),
                     !.redoStack = IF skipHistory THEN @ ELSE <<>>]

pushToHistory(tab) ==
    [tab EXCEPT !.undoStack = Append(@, createSnapshot(tab)),
                !.redoStack = <<>>]

\* the record createAssembly and createArray build: it has a children key and a
\* localPosition, and no childIds key
newAssemblyRecord(id, childIds, parentId) ==
    [id |-> id, visible |-> TRUE, children |-> childIds, parentId |-> parentId,
     expanded |-> TRUE, localPosition |-> Zero, rotation |-> Zero]

createAssembly(tab, newId, childIds, parentId) ==
    LET newAssembly == newAssemblyRecord(newId, childIds, parentId)
        adopt(node) == IF SeqContains(childIds, node.id)
                       THEN [node EXCEPT !.parentId = newId] ELSE node
    IN  [tab EXCEPT !.assemblies = Append(MapSeq(@, adopt), newAssembly),
                    !.objects = MapSeq(@, adopt),
                    !.hasUnsavedChanges = TRUE,
                    !.undoStack = Append(@, createSnapshot(tab)),
                    !.redoStack = <<>>]

toggleNodeVisibility(tab, id) ==
    IF \E i \in 1 .. Len(tab.assemblies) : tab.assemblies[i].id = id
    THEN [tab EXCEPT !.assemblies = MapSeq(@, LAMBDA asm :
                         IF asm.id = id THEN [asm EXCEPT !.visible = ~@] ELSE asm),
                     !.hasUnsavedChanges = TRUE]
    ELSE IF IsObjectIn(id, tab.objects)
    THEN [tab EXCEPT !.objects = MapSeq(@, LAMBDA obj :
                         IF obj.id = id
                         THEN WithField(obj, "visible",
                                        IF "visible" \in DOMAIN obj THEN ~obj.visible ELSE TRUE)
                         ELSE obj),
                     !.hasUnsavedChanges = TRUE]
    ELSE tab

\* !undefined is true for an assembly that has no expanded key
toggleAssemblyExpansion(tab, id) ==
    [tab EXCEPT !.assemblies = MapSeq(@, LAMBDA asm :
        IF asm.id = id
        THEN WithField(asm, "expanded",
                       IF "expanded" \in DOMAIN asm THEN ~asm.expanded ELSE TRUE)
        ELSE asm)]

storeReparentNode(tab, nodeId, newParentId) ==
    LET r == reparentNode(nodeId, newParentId, tab.objects, tab.assemblies)
    IN  [tab EXCEPT !.objects = r.objects,
                    !.assemblies = r.assemblies,
                    !.hasUnsavedChanges = TRUE,
                    !.undoStack = Append(@, createSnapshot(tab)),
                    !.redoStack = <<>>]

storeReorderChildren(tab, parentId, fromIndex, toIndex) ==
    LET r == reorderChildren(parentId, fromIndex, toIndex, tab.objects, tab.assemblies)
    IN  [tab EXCEPT !.objects = r.objects,
                    !.assemblies = r.assemblies,
                    !.hasUnsavedChanges = TRUE,
                    !.undoStack = Append(@, createSnapshot(tab)),
                    !.redoStack = <<>>]

\* ids firstId, firstId + 1, ... stand for object-<now>-<i> and assembly-<now>
createArray(tab, firstId, objectId, direction, count, spacing, createAsAssembly) ==
    IF ~IsObjectIn(objectId, tab.objects) THEN tab
    ELSE
      LET sourceObject == findNode(objectId, tab.objects, <<>>)
          copy(i) ==
              [sourceObject EXCEPT
                 !.id = firstId + i - 1,
                 !.localPosition =
                     Vec(@.x + (IF direction = "x" THEN spacing * i ELSE 0),
                         @.y + (IF direction = "y" THEN spacing * i ELSE 0),
                         @.z + (IF direction = "z" THEN spacing * i ELSE 0))]
          newObjects == [i \in 1 .. (IF count > 1 THEN count - 1 ELSE 0) |-> copy(i)]
          updatedObjects == tab.objects \o newObjects
          assemblyId == firstId + Len(newObjects)
          allObjectIds == <<objectId>> \o idsOf(newObjects)
          newAssembly == newAssemblyRecord(assemblyId, allObjectIds, sourceObject.parentId)
      IN  IF createAsAssembly
          THEN [tab EXCEPT
                  !.objects = MapSeq(updatedObjects, LAMBDA obj :
                      IF SeqContains(allObjectIds, obj.id)
                      THEN [obj EXCEPT !.parentId = assemblyId] ELSE obj),
                  !.assemblies = Append(@, newAssembly),
                  !.hasUnsavedChanges = TRUE,
                  !.undoStack = Append(@, createSnapshot(tab)),
                  !.redoStack = <<>>]
          ELSE [tab EXCEPT
                  !.objects = updatedObjects,
                  !.hasUnsavedChanges = TRUE,
                  !.undoStack = Append(@, createSnapshot(tab)),
                  !.redoStack = <<>>]

\* the second argument of worldToLocalPosition is obj.id in the source
updateObjectPosition(tab, id, worldPosition) ==
    IF ~IsObjectIn(id, tab.objects) THEN tab
    ELSE LET localPos == worldToLocalPosition(worldPosition, id, tab.objects, tab.assemblies)
         IN  [tab EXCEPT !.objects = MapSeq(@, LAMBDA o :
                             IF o.id = id THEN [o EXCEPT !.localPosition = localPos] ELSE o),
                         !.hasUnsavedChanges = TRUE,
                         !.undoStack = Append(@, createSnapshot(tab)),
                         !.redoStack = <<>>]

updateObjectRotation(tab, id, rotation) ==
    [tab EXCEPT !.objects = MapSeq(@, LAMBDA obj :
                    IF obj.id = id THEN [obj EXCEPT !.rotation = rotation] ELSE obj),
                !.hasUnsavedChanges = TRUE,
                !.undoStack = Append(@, createSnapshot(tab)),
                !.redoStack = <<>>]

\* undo without the push of the current state onto the redo stack
undo_dropsCurrent(tab) ==
    IF Len(tab.undoStack) = 0 THEN tab
    ELSE LET previousState == tab.undoStack[Len(tab.undoStack)]
         IN  [tab EXCEPT !.objects = previousState.objects,
                         !.assemblies = previousState.assemblies,
                         !.undoStack = SubSeq(@, 1, Len(@) - 1),
                         !.hasUnsavedChanges = TRUE]

undo(tab) ==
    IF Len(tab.undoStack) = 0 THEN tab
    ELSE LET previousState == tab.undoStack[Len(tab.undoStack)]
             currentState == createSnapshot(tab)
         IN  [tab EXCEPT !.objects = previousState.objects,
                         !.assemblies = previousState.assemblies,
                         !.undoStack = SubSeq(@, 1, Len(@) - 1),
                         !.redoStack = Append(@, currentState),
                         !.hasUnsavedChanges = TRUE]

redo(tab) ==
    IF Len(tab.redoStack) = 0 THEN tab
    ELSE LET nextState == tab.redoStack[Len(tab.redoStack)]
             currentState == createSnapshot(tab)
         IN  [tab EXCEPT !.objects = nextState.objects,
                         !.assemblies = nextState.assemblies,
                         !.undoStack = Append(@, currentState),
                         !.redoStack = SubSeq(@, 1, Len(@) - 1),
                         !.hasUnsavedChanges = TRUE]

(***************************************************************************)
(* Spec: the store driven from an empty document                           *)
(***************************************************************************)
HasActiveTab == activeTabIndex \in 1 .. Len(tabs)

Active == tabs[activeTabIndex]

HierarchyIdle == hObjects = <<>> /\ hAssemblies = <<>> /\ hLast = [op |-> "none"]

UiIdle == ui = [phase |-> "off"]

NoStoreCall == [op |-> "none", nodeId |-> None, newParentId |-> None,
                skipHistory |-> FALSE, worldPosition |-> Zero,
                before |-> createEmptyTab, step |-> 0]

StoreCall(op) == [NoStoreCall EXCEPT !.op = op, !.before = Active, !.step = last.step + 1]

\* the ids a caller can name: those handed out so far and one that names nothing
KnownIds == (1 .. (nextId - 1)) \cup {GhostId}
ParentInputs == KnownIds \cup {None}

\* mutant: the replacement is written to every tab
SetActive_everyTab(tab) == tabs' = [i \in DOMAIN tabs |-> tab]

\* set((state) => { ...; return { tabs } }) with the active tab replaced
SetActive(tab) == tabs' = [tabs EXCEPT ![activeTabIndex] = tab]

CanStep == HasActiveTab /\ last.step < MaxSteps

Frame == UNCHANGED <<hObjects, hAssemblies, hLast, activeTabIndex, ui>>

UpdateInputs == { [localPosition |-> Vec(5, 5, 5)] }
WorldPositions == { Vec(7, 7, 7) }
RotationInputs == { Vec(0, 45, 0) }
ArrayDirections == { "x", "y", "z" }
ArrayCounts == { 2 }
ArraySpacings == { 4 }
IndexInputs == { 0, 1 }

\* the childIds arguments given to createAssembly
ChildIdLists ==
    {<<>>} \cup { <<a>> : a \in KnownIds }
           \cup { <<pr[1], pr[2]>> : pr \in { q \in KnownIds \X KnownIds : q[1] < q[2] } }

Init ==
    /\ tabs = <<createEmptyTab>>
    /\ activeTabIndex = 1
    /\ nextId = 1
    /\ last = NoStoreCall
    /\ HierarchyIdle
    /\ UiIdle

AddObject(placement) ==
    /\ CanStep
    /\ nextId <= MaxNodes
    /\ SetActive(addObject(Active, mkObject(nextId, None, placement)))
    /\ nextId' = nextId + 1
    /\ last' = StoreCall("addObject")
    /\ Frame

RemoveObject(id) ==
    /\ CanStep
    /\ ~getDescendantsHangs(id, Active.objects, Active.assemblies)
    /\ IF deleteNodeCascadeThrows(id, Active.objects, Active.assemblies)
       THEN UNCHANGED tabs
       ELSE SetActive(deleteNode(Active, id))
    /\ last' = [StoreCall("removeObject") EXCEPT !.nodeId = id]
    /\ UNCHANGED nextId
    /\ Frame

DeleteNode(id) ==
    /\ CanStep
    /\ ~getDescendantsHangs(id, Active.objects, Active.assemblies)
    /\ IF deleteNodeCascadeThrows(id, Active.objects, Active.assemblies)
       THEN UNCHANGED tabs
       ELSE SetActive(deleteNode(Active, id))
    /\ last' = [StoreCall("deleteNode") EXCEPT !.nodeId = id]
    /\ UNCHANGED nextId
    /\ Frame

UpdateObject(id, updates, skipHistory) ==
    /\ CanStep
    /\ SetActive(updateObject(Active, id, updates, skipHistory))
    /\ last' = [StoreCall("updateObject") EXCEPT !.nodeId = id, !.skipHistory = skipHistory]
    /\ UNCHANGED nextId
    /\ Frame

PushToHistory ==
    /\ CanStep
    /\ SetActive(pushToHistory(Active))
    /\ last' = StoreCall("pushToHistory")
    /\ UNCHANGED nextId
    /\ Frame

CreateAssembly(childIds, parentId) ==
    /\ CanStep
    /\ nextId <= MaxNodes
    /\ SetActive(createAssembly(Active, nextId, childIds, parentId))
    /\ nextId' = nextId + 1
    /\ last' = StoreCall("createAssembly")
    /\ Frame

ToggleNodeVisibility(id) ==
    /\ CanStep
    /\ SetActive(toggleNodeVisibility(Active, id))
    /\ last' = [StoreCall("toggleNodeVisibility") EXCEPT !.nodeId = id]
    /\ UNCHANGED nextId
    /\ Frame

ToggleAssemblyExpansion(id) ==
    /\ CanStep
    /\ SetActive(toggleAssemblyExpansion(Active, id))
    /\ last' = [StoreCall("toggleAssemblyExpansion") EXCEPT !.nodeId = id]
    /\ UNCHANGED nextId
    /\ Frame

StoreReparentNode(nodeId, newParentId) ==
    /\ CanStep
    /\ ~validateHierarchyHangs(nodeId, newParentId, Active.objects, Active.assemblies)
    /\ IF reparentNodeThrows(nodeId, newParentId, Active.objects, Active.assemblies)
       THEN UNCHANGED tabs
       ELSE SetActive(storeReparentNode(Active, nodeId, newParentId))
    /\ last' = [StoreCall("reparentNode") EXCEPT !.nodeId = nodeId,
                                                 !.newParentId = newParentId]
    /\ UNCHANGED nextId
    /\ Frame

StoreReorderChildren(parentId, fromIndex, toIndex) ==
    /\ CanStep
    /\ IF reorderChildrenThrows(parentId, Active.assemblies)
       THEN UNCHANGED tabs
       ELSE SetActive(storeReorderChildren(Active, parentId, fromIndex, toIndex))
    /\ last' = [StoreCall("reorderChildren") EXCEPT !.newParentId = parentId]
    /\ UNCHANGED nextId
    /\ Frame

CreateArray(objectId, direction, count, spacing, createAsAssembly) ==
    /\ CanStep
    /\ LET fresh == (IF count > 1 THEN count - 1 ELSE 0) + (IF createAsAssembly THEN 1 ELSE 0)
       IN  /\ nextId + fresh - 1 <= MaxNodes
           /\ nextId' = IF IsObjectIn(objectId, Active.objects) THEN nextId + fresh ELSE nextId
    /\ SetActive(createArray(Active, nextId, objectId, direction, count, spacing,
                             createAsAssembly))
    /\ last' = [StoreCall("createArray") EXCEPT !.nodeId = objectId]
    /\ Frame

UpdateObjectPosition(id, worldPosition) ==
    /\ CanStep
    /\ IF computeWorldTransformOverflows(id, Active.objects, Active.assemblies)
       THEN UNCHANGED tabs
       ELSE SetActive(updateObjectPosition(Active, id, worldPosition))
    /\ last' = [StoreCall("updateObjectPosition") EXCEPT !.nodeId = id,
                                                         !.worldPosition = worldPosition]
    /\ UNCHANGED nextId
    /\ Frame

UpdateObjectRotation(id, rotation) ==
    /\ CanStep
    /\ SetActive(updateObjectRotation(Active, id, rotation))
    /\ last' = [StoreCall("updateObjectRotation") EXCEPT !.nodeId = id]
    /\ UNCHANGED nextId
    /\ Frame

Undo ==
    /\ CanStep
    /\ SetActive(undo(Active))
    /\ last' = StoreCall("undo")
    /\ UNCHANGED nextId
    /\ Frame

Redo ==
    /\ CanStep
    /\ SetActive(redo(Active))
    /\ last' = StoreCall("redo")
    /\ UNCHANGED nextId
    /\ Frame

Next ==
    \/ \E pl \in Placements : AddObject(pl)
    \/ \E id \in KnownIds : RemoveObject(id)
    \/ \E id \in KnownIds : DeleteNode(id)
    \/ \E id \in KnownIds, u \in UpdateInputs, sk \in BOOLEAN : UpdateObject(id, u, sk)
    \/ PushToHistory
    \/ \E cs \in ChildIdLists, p \in ParentInputs : CreateAssembly(cs, p)
    \/ \E id \in KnownIds : ToggleNodeVisibility(id)
    \/ \E id \in KnownIds : ToggleAssemblyExpansion(id)
    \/ \E n \in KnownIds, p \in ParentInputs : StoreReparentNode(n, p)
    \/ \E p \in ParentInputs, f \in IndexInputs, t \in IndexInputs : StoreReorderChildren(p, f, t)
    \/ \E id \in KnownIds, d \in ArrayDirections, c \in ArrayCounts, sp \in ArraySpacings,
          asm \in BOOLEAN : CreateArray(id, d, c, sp, asm)
    \/ \E id \in KnownIds, w \in WorldPositions : UpdateObjectPosition(id, w)
    \/ \E id \in KnownIds, r \in RotationInputs : UpdateObjectRotation(id, r)
    \/ Undo
    \/ Redo

Spec == Init /\ [][Next]_vars

(***************************************************************************)
(* SpecDrag: one pointer against Canvas.tsx and TransformGizmo.tsx.        *)
(* A React state variable has two readings: the value set by the last      *)
(* setState call (ui.isDragging) and the value the handlers of the last    *)
(* render closed over (ui.seen.isDragging).  ReactRender brings the second *)
(* up to the first and re-runs the effects that attach the listeners.      *)
(* A pointer move carries the result of screenDeltaToWorldDelta.           *)
(***************************************************************************)
MaxGestures == 2

\* a value of the snap-increment dropdown
snapIncrement == 2

DropPositions == { Vec(0, 0, 0), Vec(4, 6, 0) }

Axes == { "x", "y", "z" }

\* the grid line above the value, whether or not the value is on a line
snapToGrid_nextLine(value, gridSize) == ((value \div gridSize) + 1) * gridSize

\* Math.round(value / gridSize) * gridSize on integers, gridSize > 0
snapToGrid(value, gridSize) == ((2 * value + gridSize) \div (2 * gridSize)) * gridSize

snapVectorToGrid(vector, gridSize) ==
    Vec(snapToGrid(vector.x, gridSize), snapToGrid(vector.y, gridSize),
        snapToGrid(vector.z, gridSize))

\* the object handleDrop builds: a world position and no parentId or localPosition
droppedObject(id, worldPos) ==
    [id |-> id, position |-> snapVectorToGrid(worldPos, snapIncrement),
     rotation |-> Zero, gridSnap |-> TRUE]

selectObject(tab, id, multi) ==
    [tab EXCEPT !.selectedObjectIds =
        IF multi
        THEN IF SeqContains(@, id) THEN Remove(@, id) ELSE Append(@, id)
        ELSE <<id>>]

\* const selectedObject = selectedObjectIds.length === 1 ? objects.find(...) : null
selectedObject(selectedObjectIds, objects) ==
    IF Len(selectedObjectIds) = 1 /\ IsObjectIn(selectedObjectIds[1], objects)
    THEN findNode(selectedObjectIds[1], objects, <<>>)
    ELSE NotFound

Rendered ==
    [isDragging |-> ui.isDragging,
     gizmoIsDragging |-> ui.gizmoIsDragging,
     dragAxis |-> ui.dragAxis,
     selectedObjectIds |-> Active.selectedObjectIds,
     objects |-> Active.objects]

DragFrame == UNCHANGED <<hObjects, hAssemblies, hLast, activeTabIndex, nextId, last>>

DragInit ==
    /\ \E p1 \in DropPositions, p2 \in DropPositions, local \in BOOLEAN, sel \in BOOLEAN :
         LET dropped == addObject(addObject(createEmptyTab, droppedObject(1, p1)),
                                  droppedObject(2, p2))
             placed == IF local
                       THEN updateObject(dropped, 2, [localPosition |-> p2], FALSE)
                       ELSE dropped
             tab == IF sel THEN selectObject(placed, 2, FALSE) ELSE placed
         IN  /\ tabs = <<tab>>
             /\ ui = [phase |-> "idle", gestures |-> 0, moves |-> 0,
                      isDragging |-> FALSE,
                      dragStartPosRef |-> FALSE,
                      draggedObjectIdsRef |-> <<>>,
                      initialObjectPositionsRef |-> <<>>,
                      dragListener |-> FALSE,
                      gizmoIsDragging |-> FALSE,
                      dragAxis |-> "none",
                      dragStartLocalPosRef |-> Zero,
                      selectedObjectIdRef |-> IF sel THEN 2 ELSE None,
                      gizmoListener |-> FALSE,
                      seen |-> [isDragging |-> FALSE, gizmoIsDragging |-> FALSE,
                                dragAxis |-> "none",
                                selectedObjectIds |-> tab.selectedObjectIds,
                                objects |-> tab.objects],
                      undoAtDown |-> <<>>,
                      docAtDown |-> createSnapshot(createEmptyTab)]
    /\ activeTabIndex = 1
    /\ nextId = 3
    /\ last = NoStoreCall
    /\ HierarchyIdle

\* Canvas.handleMouseDown with the left button on the mesh of clickedObjectId
CanvasMouseDown(clickedObjectId, isMultiSelect) ==
    /\ ui.phase = "idle"
    /\ ui.gestures < MaxGestures
    /\ IsObjectIn(clickedObjectId, ui.seen.objects)
    /\ LET selectedObjectIds == ui.seen.selectedObjectIds
           objects == ui.seen.objects
           tab == IF isMultiSelect
                  THEN selectObject(Active, clickedObjectId, TRUE)
                  ELSE IF ~SeqContains(selectedObjectIds, clickedObjectId)
                  THEN selectObject(Active, clickedObjectId, FALSE)
                  ELSE Active
           objectsToDrag == IF SeqContains(selectedObjectIds, clickedObjectId)
                            THEN selectedObjectIds ELSE <<clickedObjectId>>
           found == SelectSeq(objectsToDrag, LAMBDA id : IsObjectIn(id, objects))
           initialPositions ==
               [i \in 1 .. Len(found) |->
                   [id |-> found[i], pos |-> findNode(found[i], objects, <<>>).position]]
       IN  /\ SetActive(tab)
           /\ ui' = [ui EXCEPT !.phase = "canvas",
                               !.gestures = @ + 1,
                               !.moves = 0,
                               !.dragStartPosRef = TRUE,
                               !.draggedObjectIdsRef = objectsToDrag,
                               !.initialObjectPositionsRef = initialPositions,
                               !.undoAtDown = tab.undoStack,
                               !.docAtDown = createSnapshot(tab)]
    /\ DragFrame

\* TransformGizmo.handleAxisMouseDown; the gizmo is drawn for a single selected
\* object, and the pointer goes down on the gizmo of an object with a localPosition
GizmoAxisMouseDown(axis) ==
    /\ ui.phase = "idle"
    /\ ui.gestures < MaxGestures
    /\ LET obj == selectedObject(ui.seen.selectedObjectIds, ui.seen.objects)
       IN  /\ obj # NotFound
           /\ "localPosition" \in DOMAIN obj
           /\ ui' = [ui EXCEPT !.phase = "gizmo",
                               !.gestures = @ + 1,
                               !.moves = 0,
                               !.gizmoIsDragging = TRUE,
                               !.dragAxis = axis,
                               !.dragStartLocalPosRef = obj.localPosition,
                               !.undoAtDown = Active.undoStack,
                               !.docAtDown = createSnapshot(Active)]
    /\ SetActive(pushToHistory(Active))
    /\ DragFrame

\* the test of Canvas.handleMouseMove: isDragging is the value of the last render
startsDragging ==
    ~ui.seen.isDragging /\ ui.dragStartPosRef /\ Len(ui.draggedObjectIdsRef) > 0

\* Canvas.handleMouseMove; its setIsDragging(true) is in PointerMove
handleMouseMove(tab) == IF startsDragging THEN pushToHistory(tab) ELSE tab

\* the new position handleGlobalDragMove gives one dragged object: its
\* initial position plus the world delta, snapped on all three axes when the
\* object has gridSnap
draggedPosition(initialPos, worldDelta, obj) ==
    LET moved == addVectors(initialPos, worldDelta)
    IN  IF "gridSnap" \in DOMAIN obj /\ obj.gridSnap
        THEN snapVectorToGrid(moved, snapIncrement)
        ELSE moved

\* the forEach of handleGlobalDragMove from the i-th dragged id on
RECURSIVE dragObjects(_, _, _)
dragObjects(tab, worldDelta, i) ==
    IF i > Len(ui.draggedObjectIdsRef) THEN tab
    ELSE LET id == ui.draggedObjectIdsRef[i]
             entries == SelectSeq(ui.initialObjectPositionsRef, LAMBDA e : e.id = id)
         IN  IF Len(entries) = 0 \/ ~IsObjectIn(id, ui.seen.objects)
             THEN dragObjects(tab, worldDelta, i + 1)
             ELSE LET obj == findNode(id, ui.seen.objects, <<>>)
                      newPos == draggedPosition(entries[1].pos, worldDelta, obj)
                  IN  dragObjects(updateObject(tab, id, [position |-> newPos], TRUE),
                                  worldDelta, i + 1)

\* the document listener of the drag effect, attached by the last render
handleGlobalDragMove(tab, worldDelta) ==
    IF ui.dragListener THEN dragObjects(tab, worldDelta, 1) ELSE tab

\* the window listener of the gizmo effect, attached by the last render
gizmoHandleMouseMove(tab, worldDelta) ==
    IF ~ui.gizmoListener \/ ui.selectedObjectIdRef = None THEN tab
    ELSE LET dragAxis == ui.seen.dragAxis
             delta == worldDelta[dragAxis]
             newLocalPos ==
                 Vec(ui.dragStartLocalPosRef.x + (IF dragAxis = "x" THEN delta ELSE 0),
                     ui.dragStartLocalPosRef.y + (IF dragAxis = "y" THEN delta ELSE 0),
                     ui.dragStartLocalPosRef.z + (IF dragAxis = "z" THEN delta ELSE 0))
         IN  updateObject(tab, ui.selectedObjectIdRef, [localPosition |-> newLocalPos], TRUE)

\* one mousemove event over the canvas: the React handler, then the listeners
\* on document and window
PointerMove(worldDelta) ==
    /\ ui.phase \in {"canvas", "gizmo"}
    /\ ui.moves < MaxMoves
    /\ SetActive(gizmoHandleMouseMove(
                   handleGlobalDragMove(handleMouseMove(Active), worldDelta), worldDelta))
    /\ ui' = [ui EXCEPT !.moves = @ + 1,
                        !.isDragging = IF startsDragging THEN TRUE ELSE @]
    /\ DragFrame

\* one mouseup event: Canvas.handleMouseUp and handleGlobalMouseUp, and the
\* gizmo's window listener when the last render attached it
PointerUp ==
    /\ ui.phase \in {"canvas", "gizmo"}
    /\ ui' = [ui EXCEPT !.phase = "idle",
                        !.isDragging = FALSE,
                        !.dragStartPosRef = FALSE,
                        !.draggedObjectIdsRef = <<>>,
                        !.initialObjectPositionsRef = <<>>,
                        !.gizmoIsDragging = IF ui.gizmoListener THEN FALSE ELSE @,
                        !.dragAxis = IF ui.gizmoListener THEN "none" ELSE @]
    /\ UNCHANGED tabs
    /\ DragFrame

\* a render of both components with the current state, followed by their effects
ReactRender ==
    /\ LET obj == selectedObject(Active.selectedObjectIds, Active.objects)
           new == [ui EXCEPT
                     !.seen = Rendered,
                     !.dragListener = /\ ui.isDragging
                                      /\ Len(ui.draggedObjectIdsRef) > 0
                                      /\ ui.dragStartPosRef,
                     !.gizmoListener = ui.gizmoIsDragging /\ ui.dragAxis # "none",
                     !.selectedObjectIdRef = IF obj = NotFound THEN None ELSE obj.id]
       IN  /\ new # ui
           /\ ui' = new
    /\ UNCHANGED tabs
    /\ DragFrame

DragNext ==
    \/ \E id \in 1 .. 2, multi \in BOOLEAN : CanvasMouseDown(id, multi)
    \/ \E axis \in Axes : GizmoAxisMouseDown(axis)
    \/ \E d \in WorldDeltas : PointerMove(d)
    \/ PointerUp
    \/ ReactRender

SpecDrag == DragInit /\ [][DragNext]_vars

(***************************************************************************)
(* SpecTabs: the store with several open tabs.  createTab, closeTab and    *)
(* switchToTab manage the tabs array; every other store call acts on       *)
(* tabs[activeTabIndex] and returns the state unchanged when there is no   *)
(* such tab.  Indices are those of the code plus one.                      *)
(***************************************************************************)
MaxTabs == 2

NoProject == [given |-> FALSE]

\* a project file with one object and its own camera
ProjectFile(id) ==
    [given |-> TRUE,
     objects |-> <<mkObject(id, None, [localPosition |-> Vec(2, 3, 0), rotation |-> Zero])>>,
     assemblies |-> <<>>,
     camera |-> [currentView |-> "top", zoom |-> 2, panOffset |-> [x |-> 1, y |-> 1]]]

createTab(project) ==
    IF project.given
    THEN [createEmptyTab EXCEPT !.objects = project.objects,
                                !.assemblies = project.assemblies,
                                !.camera = project.camera]
    ELSE createEmptyTab

clearSelection(tab) == [tab EXCEPT !.selectedObjectIds = <<>>]

setView(tab, view) == [tab EXCEPT !.camera.currentView = view]

setZoom(tab, zoom) == [tab EXCEPT !.camera.zoom = zoom]

setPanOffset(tab, offset) == [tab EXCEPT !.camera.panOffset = offset]

ViewInputs == { "top", "iso-front-right" }
ZoomInputs == { 3 }
PanInputs == { [x |-> 5, y |-> -4] }

TabOps == { "createTab", "closeTab", "switchToTab" }

\* a call that does not read the active tab
TabCall(op) == [NoStoreCall EXCEPT !.op = op, !.step = last.step + 1]

TabFrame == UNCHANGED <<hObjects, hAssemblies, hLast, ui>>

CreateTab(withProject) ==
    /\ last.step < MaxSteps
    /\ Len(tabs) < MaxTabs
    /\ withProject => nextId <= MaxNodes
    /\ tabs' = Append(tabs, createTab(IF withProject THEN ProjectFile(nextId)
                                      ELSE NoProject))
    /\ activeTabIndex' = Len(tabs) + 1
    /\ nextId' = IF withProject THEN nextId + 1 ELSE nextId
    /\ last' = TabCall("createTab")
    /\ TabFrame

\* closeTab on the tabs array and the active index, both counted from 1
closeTab(state, index) ==
    IF Len(state.tabs) = 1
    THEN [tabs |-> <<createEmptyTab>>, activeTabIndex |-> 1]
    ELSE LET kept == SelectSeq([j \in 1 .. Len(state.tabs) |-> j], LAMBDA j : j # index)
         IN  [tabs |-> [i \in 1 .. Len(kept) |-> state.tabs[kept[i]]],
              activeTabIndex |->
                  IF index < state.activeTabIndex THEN state.activeTabIndex - 1
                  ELSE IF index = state.activeTabIndex
                       THEN (IF index - 1 > 1 THEN index - 1 ELSE 1)
                       ELSE state.activeTabIndex]

CloseTab(index) ==
    /\ last.step < MaxSteps
    /\ tabs' = closeTab([tabs |-> tabs, activeTabIndex |-> activeTabIndex], index).tabs
    /\ activeTabIndex' =
           closeTab([tabs |-> tabs, activeTabIndex |-> activeTabIndex], index).activeTabIndex
    /\ last' = TabCall("closeTab")
    /\ UNCHANGED nextId
    /\ TabFrame

SwitchToTab(index) ==
    /\ last.step < MaxSteps
    /\ activeTabIndex' = index
    /\ last' = TabCall("switchToTab")
    /\ UNCHANGED <<tabs, nextId>>
    /\ TabFrame

SelectObject(id, multi) ==
    /\ CanStep
    /\ SetActive(selectObject(Active, id, multi))
    /\ last' = [StoreCall("selectObject") EXCEPT !.nodeId = id]
    /\ UNCHANGED nextId
    /\ Frame

ClearSelection ==
    /\ CanStep
    /\ SetActive(clearSelection(Active))
    /\ last' = StoreCall("clearSelection")
    /\ UNCHANGED nextId
    /\ Frame

SetView(view) ==
    /\ CanStep
    /\ SetActive(setView(Active, view))
    /\ last' = StoreCall("setView")
    /\ UNCHANGED nextId
    /\ Frame

SetZoom(zoom) ==
    /\ CanStep
    /\ SetActive(setZoom(Active, zoom))
    /\ last' = StoreCall("setZoom")
    /\ UNCHANGED nextId
    /\ Frame

SetPanOffset(offset) ==
    /\ CanStep
    /\ SetActive(setPanOffset(Active, offset))
    /\ last' = StoreCall("setPanOffset")
    /\ UNCHANGED nextId
    /\ Frame

TabsNext ==
    \/ Next
    \/ \E withProject \in BOOLEAN : CreateTab(withProject)
    \/ \E index \in 1 .. MaxTabs + 1 : CloseTab(index)
    \/ \E index \in 1 .. MaxTabs + 1 : SwitchToTab(index)
    \/ \E id \in KnownIds, multi \in BOOLEAN : SelectObject(id, multi)
    \/ ClearSelection
    \/ \E view \in ViewInputs : SetView(view)
    \/ \E zoom \in ZoomInputs : SetZoom(zoom)
    \/ \E offset \in PanInputs : SetPanOffset(offset)

SpecTabs == Init /\ [][TabsNext]_vars

(***************************************************************************)
(* SpecOpen: the store calls that open and close projects, in any order    *)
(* and number: createTab, newProject, loadProject and closeTab. The tabs   *)
(* array is capped at MaxOpenTabs in the guards.                           *)
(***************************************************************************)
MaxOpenTabs == 6

\* the most tabs the requirements allow to be open
TabLimit == 5

\* mutant: the project is loaded into the active tab with its history kept
loadProject_keepsHistory(state, project, openInNewTab) ==
    IF state.activeTabIndex \in 1 .. Len(state.tabs)
    THEN [state EXCEPT !.tabs[state.activeTabIndex] =
             [createTab(project) EXCEPT
                 !.undoStack = state.tabs[state.activeTabIndex].undoStack,
                 !.redoStack = state.tabs[state.activeTabIndex].redoStack]]
    ELSE state

\* the active tab replaced by the loaded project; reading the id of a tab
\* that is not there raises a TypeError and leaves the store as it was
loadProject(state, project, openInNewTab) ==
    IF openInNewTab
    THEN [tabs |-> Append(state.tabs, createTab(project)),
          activeTabIndex |-> Len(state.tabs) + 1]
    ELSE IF state.activeTabIndex \in 1 .. Len(state.tabs)
    THEN [state EXCEPT !.tabs[state.activeTabIndex] = createTab(project)]
    ELSE state

newProject(state, openInNewTab) ==
    IF openInNewTab
    THEN [tabs |-> Append(state.tabs, createTab(NoProject)),
          activeTabIndex |-> Len(state.tabs) + 1]
    ELSE IF state.activeTabIndex \in 1 .. Len(state.tabs)
    THEN [state EXCEPT !.tabs[state.activeTabIndex] = createEmptyTab]
    ELSE state

StoreTabs == [tabs |-> tabs, activeTabIndex |-> activeTabIndex]

OpenCall(op, state) ==
    /\ tabs' = state.tabs
    /\ activeTabIndex' = state.activeTabIndex
    /\ last' = [NoStoreCall EXCEPT !.op = op]
    /\ UNCHANGED <<hObjects, hAssemblies, hLast, nextId, ui>>

CallCreateTab(withProject) ==
    /\ Len(tabs) < MaxOpenTabs
    /\ OpenCall("createTab",
                [tabs |-> Append(tabs, createTab(IF withProject THEN ProjectFile(1)
                                                 ELSE NoProject)),
                 activeTabIndex |-> Len(tabs) + 1])

CallNewProject(openInNewTab) ==
    /\ openInNewTab => Len(tabs) < MaxOpenTabs
    /\ OpenCall("newProject", newProject(StoreTabs, openInNewTab))

CallLoadProject(openInNewTab) ==
    /\ openInNewTab => Len(tabs) < MaxOpenTabs
    /\ OpenCall("loadProject", loadProject(StoreTabs, ProjectFile(1), openInNewTab))

CallCloseTab(index) ==
    /\ index <= Len(tabs) + 1
    /\ OpenCall("closeTab", closeTab(StoreTabs, index))

OpenNext ==
    \/ \E withProject \in BOOLEAN : CallCreateTab(withProject)
    \/ \E openInNewTab \in BOOLEAN : CallNewProject(openInNewTab)
    \/ \E openInNewTab \in BOOLEAN : CallLoadProject(openInNewTab)
    \/ \E index \in 1 .. MaxOpenTabs : CallCloseTab(index)

SpecOpen == Init /\ [][OpenNext]_vars

(***************************************************************************)
(* SpecShortcuts: the tabs as the user reaches them, through the tab bar   *)
(* (components/Layout/TabBar.tsx) and the tab shortcuts of                 *)
(* hooks/useKeyboardShortcuts.ts.  The tab bar's handlers are made anew by *)
(* every render and read the tabs of the store as they are.  The keydown   *)
(* listener is installed by an effect whose dependency list (lines         *)
(* 231-245) names selectedObjectIds but neither tabs nor activeTabIndex:   *)
(* it reads the tabs and activeTabIndex of the render in which the effect  *)
(* last ran, and the effect runs again only after a render that finds      *)
(* another selectedObjectIds array, that of another tab object.  ui.refs   *)
(* names the tab objects, ui.seen is what the listener closed over.  Each  *)
(* action is a handler with the render and the effect that follow it.      *)
(***************************************************************************)
MaxKeys == 4

MaxShortcutTabs == 3

\* what handleKeyDown closed over, and the dependency the effect compares
closureOf(state, refs) ==
    [length |-> Len(state.tabs), activeTabIndex |-> state.activeTabIndex,
     selectedObjectIds |-> IF state.activeTabIndex \in 1 .. Len(refs)
                           THEN refs[state.activeTabIndex] ELSE None]

\* useEffect(..., [..., selectedObjectIds, ...]); with no active tab the
\* getter returns a new empty array for every render
useEffect(seen, state, refs) ==
    IF closureOf(state, refs).selectedObjectIds = None
       \/ closureOf(state, refs).selectedObjectIds # seen.selectedObjectIds
    THEN closureOf(state, refs)
    ELSE seen

\* the tab objects left by closeTab(index), by name
closeTabRefs(refs, made, index) ==
    IF Len(refs) = 1 THEN <<made + 1>>
    ELSE SelectSeq([j \in 1 .. Len(refs) |-> IF j = index THEN None ELSE refs[j]],
                   LAMBDA r : r # None)

ShortcutsInit ==
    /\ tabs = <<createEmptyTab>>
    /\ activeTabIndex = 1
    /\ nextId = 1
    /\ last = [op |-> "none", step |-> 0, index |-> 0, current |-> TRUE]
    /\ hObjects = <<>> /\ hAssemblies = <<>> /\ hLast = [op |-> "none"]
    /\ ui = [phase |-> "tabs", refs |-> <<1>>, made |-> 1,
             seen |-> closureOf([tabs |-> <<createEmptyTab>>, activeTabIndex |-> 1], <<1>>)]

\* the listener's tabs and activeTabIndex are those of the store
SeenIsCurrent == ui.seen = closureOf(StoreTabs, ui.refs)

\* a handler's store call, then the render and the effect
TabAction(op, index, state, refs) ==
    /\ tabs' = state.tabs
    /\ activeTabIndex' = state.activeTabIndex
    /\ ui' = [ui EXCEPT !.refs = refs,
                        !.made = IF refs = ui.refs THEN @ ELSE @ + 1,
                        !.seen = useEffect(ui.seen, state, refs)]
    /\ last' = [op |-> op, step |-> last.step + 1, index |-> index,
                current |-> last.current /\ (op \in {"key-w", "key-[", "key-]"} => SeenIsCurrent)]
    /\ UNCHANGED <<hObjects, hAssemblies, hLast, nextId>>

\* createTab(), from a menu command
MenuCreateTab ==
    /\ last.step < MaxKeys
    /\ Len(tabs) < MaxShortcutTabs
    /\ TabAction("createTab", Len(tabs) + 1,
                 [tabs |-> Append(tabs, createTab(NoProject)),
                  activeTabIndex |-> Len(tabs) + 1],
                 Append(ui.refs, ui.made + 1))

\* onClick={() => switchToTab(index)} of a rendered tab
TabBarSwitchToTab(index) ==
    /\ last.step < MaxKeys
    /\ index \in 1 .. Len(tabs)
    /\ TabAction("switchToTab", index, [StoreTabs EXCEPT !.activeTabIndex = index], ui.refs)

\* handleCloseTab of a rendered tab, confirmed where it asks; the close
\* button is rendered when tabs.length > 1
TabBarCloseTab(index) ==
    /\ last.step < MaxKeys
    /\ Len(tabs) > 1
    /\ index \in 1 .. Len(tabs)
    /\ TabAction("closeTab", index, closeTab(StoreTabs, index),
                 closeTabRefs(ui.refs, ui.made, index))

\* Cmd+W: closeTab(activeTabIndex), confirmed where it asks
KeyCloseTab ==
    /\ last.step < MaxKeys
    /\ TabAction("key-w", ui.seen.activeTabIndex,
                 closeTab(StoreTabs, ui.seen.activeTabIndex),
                 closeTabRefs(ui.refs, ui.made, ui.seen.activeTabIndex))

\* activeTabIndex > 0 ? activeTabIndex - 1 : tabs.length - 1
prevIndex(seen) ==
    IF seen.activeTabIndex > 1 THEN seen.activeTabIndex - 1 ELSE seen.length

\* activeTabIndex < tabs.length - 1 ? activeTabIndex + 1 : 0
nextIndex(seen) ==
    IF seen.activeTabIndex < seen.length THEN seen.activeTabIndex + 1 ELSE 1

\* Cmd+Shift+[
KeyPreviousTab ==
    /\ last.step < MaxKeys
    /\ TabAction("key-[", prevIndex(ui.seen),
                 [StoreTabs EXCEPT !.activeTabIndex = prevIndex(ui.seen)], ui.refs)

\* Cmd+Shift+]
KeyNextTab ==
    /\ last.step < MaxKeys
    /\ TabAction("key-]", nextIndex(ui.seen),
                 [StoreTabs EXCEPT !.activeTabIndex = nextIndex(ui.seen)], ui.refs)

ShortcutsNext ==
    \/ MenuCreateTab
    \/ \E index \in 1 .. MaxShortcutTabs : TabBarSwitchToTab(index)
    \/ \E index \in 1 .. MaxShortcutTabs : TabBarCloseTab(index)
    \/ KeyCloseTab
    \/ KeyPreviousTab
    \/ KeyNextTab

SpecShortcuts == ShortcutsInit /\ [][ShortcutsNext]_vars

(***************************************************************************)
(* SpecSelect: the store calls that set the selection of the active tab or *)
(* take objects away from under it: selectObject and selectAssemblyObjects *)
(* as the canvas and the hierarchy panel call them, on a node that is      *)
(* there, and removeObject, deleteNode, undo and redo, on a document built *)
(* with addObject, createAssembly and reparentNode.                        *)
(***************************************************************************)
\* collectObjectIds recursing past every assembly: a RangeError inside
\* set(), which leaves the store as it was
RECURSIVE collectObjectIdsOverflows(_, _, _)
collectObjectIdsOverflows(asmId, assemblies, left) ==
    /\ \E i \in 1 .. Len(assemblies) : assemblies[i].id = asmId
    /\ \/ left = 0
       \/ \E i \in 1 .. Len(assemblies) :
             /\ "parentId" \in DOMAIN assemblies[i]
             /\ assemblies[i].parentId = asmId
             /\ collectObjectIdsOverflows(assemblies[i].id, assemblies, left - 1)

RECURSIVE collectObjectIds(_, _, _)
collectObjectIds(asmId, objects, assemblies) ==
    IF ~\E i \in 1 .. Len(assemblies) : assemblies[i].id = asmId THEN <<>>
    ELSE LET directObjects == idsOf(SelectSeq(objects, LAMBDA obj : obj.parentId = asmId))
             childAssemblies ==
                 SelectSeq(assemblies,
                           LAMBDA a : "parentId" \in DOMAIN a /\ a.parentId = asmId)
             nestedObjects ==
                 Concat([i \in 1 .. Len(childAssemblies) |->
                            collectObjectIds(childAssemblies[i].id, objects, assemblies)])
         IN  directObjects \o nestedObjects

selectAssemblyObjects(tab, id) ==
    IF ~\E i \in 1 .. Len(tab.assemblies) : tab.assemblies[i].id = id THEN tab
    ELSE IF collectObjectIdsOverflows(id, tab.assemblies, Len(tab.assemblies)) THEN tab
    ELSE [tab EXCEPT !.selectedObjectIds = collectObjectIds(id, tab.objects, tab.assemblies)]

SelectAssemblyObjects(id) ==
    /\ CanStep
    /\ SetActive(selectAssemblyObjects(Active, id))
    /\ last' = [StoreCall("selectAssemblyObjects") EXCEPT !.nodeId = id]
    /\ UNCHANGED nextId
    /\ Frame

SelectNext ==
    \/ \E pl \in Placements : AddObject(pl)
    \/ \E cs \in ChildIdLists, p \in ParentInputs : CreateAssembly(cs, p)
    \/ \E n \in KnownIds, p \in ParentInputs : StoreReparentNode(n, p)
    \/ \E id \in KnownIds, multi \in BOOLEAN :
          IsObjectIn(id, Active.objects) /\ SelectObject(id, multi)
    \/ \E id \in KnownIds : SelectAssemblyObjects(id)
    \/ \E id \in KnownIds : RemoveObject(id)
    \/ \E id \in KnownIds : DeleteNode(id)
    \/ Undo
    \/ Redo

SpecSelect == Init /\ [][SelectNext]_vars

(***************************************************************************)
(* SpecReplace: a tab with objects and with both history stacks filled, in *)
(* which loadProject and newProject replace the document in place, between *)
(* edits, undo and redo.  ui.firstId is the first id handed out after the  *)
(* last replacement: every node of the document open before has a smaller  *)
(* id.                                                                     *)
(***************************************************************************)
\* the tab after addObject, removeObject and undo
EditedTab ==
    undo(deleteNode(addObject(createEmptyTab, mkObject(1, None, CHOOSE pl \in Placements : TRUE)), 1))

ReplaceInit ==
    /\ tabs = <<EditedTab>>
    /\ activeTabIndex = 1
    /\ nextId = 2
    /\ last = NoStoreCall
    /\ HierarchyIdle
    /\ ui = [phase |-> "replace", firstId |-> 0]

ReplaceCall(op, state) ==
    /\ tabs' = state.tabs
    /\ activeTabIndex' = state.activeTabIndex
    /\ last' = StoreCall(op)
    /\ UNCHANGED <<hObjects, hAssemblies, hLast>>

\* loadProject(project, filePath) with openInNewTab left false
LoadProjectHere ==
    /\ CanStep
    /\ nextId <= MaxNodes
    /\ ReplaceCall("loadProject", loadProject(StoreTabs, ProjectFile(nextId), FALSE))
    /\ nextId' = nextId + 1
    /\ ui' = [ui EXCEPT !.firstId = nextId]

\* newProject(name) with openInNewTab left false
NewProjectHere ==
    /\ CanStep
    /\ ReplaceCall("newProject", newProject(StoreTabs, FALSE))
    /\ UNCHANGED nextId
    /\ ui' = [ui EXCEPT !.firstId = nextId]

ReplaceNext ==
    \/ LoadProjectHere
    \/ NewProjectHere
    \/ \E pl \in Placements : AddObject(pl)
    \/ \E id \in KnownIds : RemoveObject(id)
    \/ Undo
    \/ Redo

SpecReplace == ReplaceInit /\ [][ReplaceNext]_vars

(***************************************************************************)
(* SpecAutoSave: useAutoSave against a store with two tabs, each loaded    *)
(* from a file of its own.  performAutoSave is a closure of the render in  *)
(* which the timer effect last ran (dependencies currentFilePath and       *)
(* hasUnsavedChanges of the active tab): ui.hook holds what it closed      *)
(* over.  Between the call of writeFile and its completion the user edits  *)
(* and switches tabs; ui.write is the write in flight.  One write is in    *)
(* flight at a time.  Every action ends with the render and the effect     *)
(* that follow it.                                                         *)
(***************************************************************************)
MaxSaveSteps == 4

FilePaths == <<"a.draftplan", "b.draftplan">>

SaveEdits == { [localPosition |-> Vec(5, 5, 5)], [localPosition |-> Vec(6, 6, 6)] }

\* a tab loaded from a file: loadProject(project, filePath, true)
LoadedTab(id) == createTab(ProjectFile(id)) @@ [currentFilePath |-> FilePaths[id]]

\* getProjectFile(), without the project info
getProjectFile(state) ==
    [objects |-> state.tabs[state.activeTabIndex].objects,
     assemblies |-> state.tabs[state.activeTabIndex].assemblies,
     camera |-> state.tabs[state.activeTabIndex].camera]

markSaved(state, filePath) ==
    IF state.activeTabIndex \notin 1 .. Len(state.tabs) THEN state
    ELSE [state EXCEPT !.tabs[state.activeTabIndex].currentFilePath = filePath,
                       !.tabs[state.activeTabIndex].hasUnsavedChanges = FALSE]

NoWrite == [pending |-> FALSE]

\* currentFilePath, hasUnsavedChanges and isSaving as a render of the hook
\* reads them
hookOf(state, isSaving) ==
    [currentFilePath |-> state.tabs[state.activeTabIndex].currentFilePath,
     hasUnsavedChanges |-> state.tabs[state.activeTabIndex].hasUnsavedChanges,
     isSaving |-> isSaving]

\* useEffect(..., [autoSaveEnabled, autoSaveInterval, currentFilePath,
\* hasUnsavedChanges]): the interval calls the performAutoSave of the render
\* in which the effect ran
timerEffect(hook, state, isSaving) ==
    IF hookOf(state, isSaving).currentFilePath # hook.currentFilePath
       \/ hookOf(state, isSaving).hasUnsavedChanges # hook.hasUnsavedChanges
    THEN hookOf(state, isSaving)
    ELSE hook

AutoSaveInit ==
    /\ \E edited \in [1 .. 2 -> BOOLEAN], active \in 1 .. 2 :
          /\ tabs = [i \in 1 .. 2 |->
                        IF edited[i]
                        THEN updateObject(LoadedTab(i), i, [localPosition |-> Vec(5, 5, 5)], FALSE)
                        ELSE LoadedTab(i)]
          /\ activeTabIndex = active
          /\ ui = [phase |-> "autosave", isSaving |-> FALSE, write |-> NoWrite,
                   hook |-> hookOf([tabs |-> [i \in 1 .. 2 |->
                                       IF edited[i]
                                       THEN updateObject(LoadedTab(i), i,
                                                         [localPosition |-> Vec(5, 5, 5)], FALSE)
                                       ELSE LoadedTab(i)],
                                    activeTabIndex |-> active], FALSE)]
    /\ nextId = 3
    /\ last = [op |-> "none", step |-> 0]
    /\ HierarchyIdle

\* the store and the hook after a step, then the render and the effect
AutoSaveStep(op, state, isSaving, write) ==
    /\ tabs' = state.tabs
    /\ activeTabIndex' = state.activeTabIndex
    /\ ui' = [ui EXCEPT !.isSaving = isSaving, !.write = write,
                        !.hook = timerEffect(ui.hook, state, isSaving)]
    /\ last' = [op |-> op, step |-> last.step + 1, before |-> tabs,
                activeTabIndex |-> activeTabIndex, write |-> ui.write]
    /\ UNCHANGED <<hObjects, hAssemblies, hLast, nextId>>

\* the user moves an object of the active tab
EditActiveTab(id, updates) ==
    /\ last.step < MaxSaveSteps
    /\ IsObjectIn(id, Active.objects)
    /\ AutoSaveStep("updateObject",
                    [StoreTabs EXCEPT !.tabs[activeTabIndex] = updateObject(Active, id, updates, FALSE)],
                    ui.isSaving, ui.write)

\* the user clicks another tab
ClickTab(index) ==
    /\ last.step < MaxSaveSteps
    /\ index \in 1 .. Len(tabs)
    /\ index # activeTabIndex
    /\ AutoSaveStep("switchToTab", [StoreTabs EXCEPT !.activeTabIndex = index],
                    ui.isSaving, ui.write)

\* the interval fires: performAutoSave up to its await
TimerFires ==
    /\ last.step < MaxSaveSteps
    /\ ~ui.write.pending
    /\ ui.hook.hasUnsavedChanges /\ ~ui.hook.isSaving
    /\ AutoSaveStep("performAutoSave", StoreTabs, TRUE,
                    [pending |-> TRUE, filePath |-> ui.hook.currentFilePath,
                     tab |-> activeTabIndex, projectFile |-> getProjectFile(StoreTabs)])

\* writeFile resolves: performAutoSave from its await to its end
WriteCompletes(success) ==
    /\ last.step < MaxSaveSteps
    /\ ui.write.pending
    /\ AutoSaveStep(IF success THEN "markSaved" ELSE "writeFailed",
                    IF success THEN markSaved(StoreTabs, ui.write.filePath) ELSE StoreTabs,
                    FALSE, NoWrite)

AutoSaveNext ==
    \/ \E id \in 1 .. 2, updates \in SaveEdits : EditActiveTab(id, updates)
    \/ \E index \in 1 .. 2 : ClickTab(index)
    \/ TimerFires
    \/ \E success \in BOOLEAN : WriteCompletes(success)

SpecAutoSave == AutoSaveInit /\ [][AutoSaveNext]_vars

(***************************************************************************)
(* SpecView: the screen-to-world conversions of lib/geometry/coordinates   *)
(* and the position the canvas drag handler computes from them, each       *)
(* applied once to inputs drawn from small sets.  World coordinates are    *)
(* whole numbers; the inputs are chosen so that every quotient and every   *)
(* product with 0.707 is whole.  vector.unproject(camera) is a call into   *)
(* three.js: its result is an input.                                       *)
(***************************************************************************)
AxisViews == { "front", "back", "left", "right", "top", "bottom" }
IsoViews == { "iso-front-right", "iso-front-left", "iso-back-right", "iso-back-left" }
ViewTypes == AxisViews \cup IsoViews

\* value * 0.707
Times707(value) == (value * 707) \div 1000

\* mutant: the unprojected point is returned as it is
screenToWorld_keepsDepth(vector, view) == vector

\* the switch of screenToWorld on the unprojected vector
screenToWorld(vector, view) ==
    CASE view = "front"  -> Vec(vector.x, vector.y, 0)
      [] view = "back"   -> Vec(-vector.x, vector.y, 0)
      [] view = "top"    -> Vec(vector.x, 0, -vector.y)
      [] view = "bottom" -> Vec(vector.x, 0, vector.y)
      [] view = "left"   -> Vec(0, vector.y, vector.x)
      [] view = "right"  -> Vec(0, vector.y, -vector.x)
      [] view = "iso-front-right" ->
             Vec(Times707(vector.x), vector.y, Times707(vector.x))
      [] view = "iso-front-left" ->
             Vec(Times707(-vector.x), vector.y, Times707(vector.x))
      [] view = "iso-back-right" ->
             Vec(Times707(vector.x), vector.y, Times707(-vector.x))
      [] view = "iso-back-left" ->
             Vec(Times707(-vector.x), vector.y, Times707(-vector.x))
      [] OTHER -> Vec(vector.x, vector.y, 0)

\* ndcDelta * (viewSize / 2) with ndcDelta = (deltaScreen / canvasSize) * 2 and
\* viewSize = frustumSize / zoom, as one quotient
worldDeltaOf(deltaScreen, canvasSize, frustumSize, zoom) ==
    (deltaScreen * 2 * frustumSize) \div (canvasSize * zoom * 2)

screenDeltaToWorldDelta(deltaScreenX, deltaScreenY, camera, view, canvasWidth, canvasHeight) ==
    LET worldDeltaX == worldDeltaOf(deltaScreenX, canvasWidth,
                                    camera.right - camera.left, camera.zoom)
        worldDeltaY == worldDeltaOf(-deltaScreenY, canvasHeight,
                                    camera.top - camera.bottom, camera.zoom)
    IN  CASE view = "front"  -> Vec(worldDeltaX, worldDeltaY, 0)
          [] view = "back"   -> Vec(-worldDeltaX, worldDeltaY, 0)
          [] view = "top"    -> Vec(worldDeltaX, 0, -worldDeltaY)
          [] view = "bottom" -> Vec(worldDeltaX, 0, worldDeltaY)
          [] view = "left"   -> Vec(0, worldDeltaY, worldDeltaX)
          [] view = "right"  -> Vec(0, worldDeltaY, -worldDeltaX)
          [] view = "iso-front-right" ->
                 Vec(Times707(worldDeltaX), worldDeltaY, Times707(worldDeltaX))
          [] view = "iso-front-left" ->
                 Vec(Times707(-worldDeltaX), worldDeltaY, Times707(worldDeltaX))
          [] view = "iso-back-right" ->
                 Vec(Times707(worldDeltaX), worldDeltaY, Times707(-worldDeltaX))
          [] view = "iso-back-left" ->
                 Vec(Times707(-worldDeltaX), worldDeltaY, Times707(-worldDeltaX))
          [] OTHER -> Vec(worldDeltaX, worldDeltaY, 0)

(***************************************************************************)
(* lib/three/views: the camera setupCameraForView leaves behind, and what  *)
(* three.js computes with it.  camera.lookAt and vector.unproject /         *)
(* vector.project are three.js calls, modelled by their definition for an  *)
(* orthographic camera: lookAt builds the camera's right, up and back axes *)
(* from position, target and up vector; unproject maps normalised device   *)
(* coordinates to position + xc * right + yc * up + zc * back.  Lengths    *)
(* are in hundredths of a world unit so that near = 0.1 is whole.  The     *)
(* axes of the six axis-aligned views are whole unit vectors; those of the *)
(* isometric views are not, and the camera is built for the six only.      *)
(***************************************************************************)
Scale == 100

VIEW_CONFIGS(view) ==
    CASE view = "front"  -> [cameraPosition |-> Vec(0, 0, 100 * Scale), upVector |-> Vec(0, 1, 0)]
      [] view = "back"   -> [cameraPosition |-> Vec(0, 0, -100 * Scale), upVector |-> Vec(0, 1, 0)]
      [] view = "left"   -> [cameraPosition |-> Vec(-100 * Scale, 0, 0), upVector |-> Vec(0, 1, 0)]
      [] view = "right"  -> [cameraPosition |-> Vec(100 * Scale, 0, 0), upVector |-> Vec(0, 1, 0)]
      [] view = "top"    -> [cameraPosition |-> Vec(0, 100 * Scale, 0), upVector |-> Vec(0, 0, -1)]
      [] view = "bottom" -> [cameraPosition |-> Vec(0, -100 * Scale, 0), upVector |-> Vec(0, 0, 1)]
      [] view = "iso-front-right" ->
             [cameraPosition |-> Vec(70 * Scale, 70 * Scale, 70 * Scale), upVector |-> Vec(0, 1, 0)]
      [] view = "iso-front-left" ->
             [cameraPosition |-> Vec(-70 * Scale, 70 * Scale, 70 * Scale), upVector |-> Vec(0, 1, 0)]
      [] view = "iso-back-right" ->
             [cameraPosition |-> Vec(70 * Scale, 70 * Scale, -70 * Scale), upVector |-> Vec(0, 1, 0)]
      [] view = "iso-back-left" ->
             [cameraPosition |-> Vec(-70 * Scale, 70 * Scale, -70 * Scale), upVector |-> Vec(0, 1, 0)]

\* the switch of setupCameraForView: (offsetX, offsetY, offsetZ)
panOffsetToWorld(view, panOffset) ==
    CASE view = "front"  -> Vec(panOffset.x, panOffset.y, 0)
      [] view = "back"   -> Vec(-panOffset.x, panOffset.y, 0)
      [] view = "left"   -> Vec(0, panOffset.y, panOffset.x)
      [] view = "right"  -> Vec(0, panOffset.y, -panOffset.x)
      [] view = "top"    -> Vec(panOffset.x, 0, -panOffset.y)
      [] view = "bottom" -> Vec(panOffset.x, 0, panOffset.y)
      [] view = "iso-front-right" ->
             Vec(Times707(panOffset.x), panOffset.y, Times707(panOffset.x))
      [] view = "iso-front-left" ->
             Vec(Times707(-panOffset.x), panOffset.y, Times707(panOffset.x))
      [] view = "iso-back-right" ->
             Vec(Times707(panOffset.x), panOffset.y, Times707(-panOffset.x))
      [] view = "iso-back-left" ->
             Vec(Times707(-panOffset.x), panOffset.y, Times707(-panOffset.x))

Cross(a, b) ==
    Vec(a.y * b.z - a.z * b.y, a.z * b.x - a.x * b.z, a.x * b.y - a.y * b.x)

Dot(a, b) == a.x * b.x + a.y * b.y + a.z * b.z

ScaleVec(k, v) == Vec(k * v.x, k * v.y, k * v.z)

SignOf(n) == IF n > 0 THEN 1 ELSE IF n < 0 THEN -1 ELSE 0

\* v / |v| for a vector along one axis
normalize(v) == Vec(SignOf(v.x), SignOf(v.y), SignOf(v.z))

\* three.js Object3D.lookAt for a camera: back = position - target,
\* right = up x back, up = back x right, each normalised
lookAt(position, target, up) ==
    LET back == normalize(subtractVectors(position, target))
        right == normalize(Cross(up, back))
    IN  [right |-> right, up |-> normalize(Cross(back, right)), back |-> back]

\* createOrthographicCamera(aspectRatio = 4/3, viewSize = 60): the frustum
createOrthographicCamera ==
    [left |-> -40 * Scale, right |-> 40 * Scale, top |-> 30 * Scale, bottom |-> -30 * Scale,
     near |-> 10, far |-> 1000 * Scale]

\* the camera after setupCameraForView: frustum and zoom, position, and the
\* axes lookAt gives it
setupCameraForView(view, zoom, panOffset) ==
    LET config == VIEW_CONFIGS(view)
        offset == panOffsetToWorld(view, panOffset)
        position == addVectors(config.cameraPosition, offset)
    IN  Spread(createOrthographicCamera,
               [zoom |-> zoom, position |-> position,
                axes |-> lookAt(position, offset, config.upVector)])

\* the point in camera space of the pixel (screenX, screenY) at ndc depth 0:
\* ndc = (screenX / canvasWidth * 2 - 1, -(screenY / canvasHeight) * 2 + 1, 0)
\* through the inverse of the orthographic projection
cameraSpaceOf(screenX, screenY, camera, canvasWidth, canvasHeight) ==
    Vec(((2 * screenX - canvasWidth) * (camera.right - camera.left))
            \div (2 * canvasWidth * camera.zoom),
        ((canvasHeight - 2 * screenY) * (camera.top - camera.bottom))
            \div (2 * canvasHeight * camera.zoom),
        -((camera.far + camera.near) \div 2))

\* vector.unproject(camera) of that pixel
unproject(screenX, screenY, camera, canvasWidth, canvasHeight) ==
    LET c == cameraSpaceOf(screenX, screenY, camera, canvasWidth, canvasHeight)
    IN  addVectors(camera.position,
            addVectors(ScaleVec(c.x, camera.axes.right),
                addVectors(ScaleVec(c.y, camera.axes.up), ScaleVec(c.z, camera.axes.back))))

\* screenToWorld with its six arguments: the unprojection, then the switch
screenToWorldAt(screenX, screenY, camera, view, canvasWidth, canvasHeight) ==
    screenToWorld(unproject(screenX, screenY, camera, canvasWidth, canvasHeight), view)

canvasOffset == 24

\* TransformGizmo.worldToScreen: worldPos.project(camera), then ndc to pixels
\* of the container
worldToScreen(worldPos, camera, canvasWidth, canvasHeight) ==
    LET rel == subtractVectors(worldPos, camera.position)
        xc == Dot(rel, camera.axes.right)
        yc == Dot(rel, camera.axes.up)
    IN  [x |-> ((2 * xc * camera.zoom * canvasWidth)
                    \div ((camera.right - camera.left) * 2))
                + (canvasWidth \div 2) + canvasOffset,
         y |-> (canvasHeight \div 2)
                - ((2 * yc * camera.zoom * canvasHeight)
                    \div ((camera.top - camera.bottom) * 2))
                + canvasOffset]

\* points vector.unproject(camera) can return: on no axis zero
UnprojectedVectors == { Vec(3000, -2000, 5000), Vec(-1000, 4000, -7000) }

\* the orthographic camera of the canvas at two zoom levels
Cameras ==
    { [left |-> -20000, right |-> 20000, top |-> 15000, bottom |-> -15000, zoom |-> z] :
        z \in { 1, 2 } }

CanvasWidth == 800
CanvasHeight == 600

ScreenDeltasX == { -40, 0, 80 }
ScreenDeltasY == { -80, 0, 40 }

\* positions at drag start, on and off the snap grid
StartPositions == { Vec(0, 0, 0), Vec(4, -6, 2), Vec(3, 5, 7) }

ViewIdle == hObjects = <<>> /\ hAssemblies = <<>> /\ StoreIdle

ViewInit == hLast = [op |-> "none"] /\ ViewIdle

ViewFrame == UNCHANGED <<hObjects, hAssemblies, tabs, activeTabIndex, nextId, last, ui>>

ScreenToWorld(vector, view) ==
    /\ hLast.op = "none"
    /\ hLast' = [op |-> "screenToWorld", view |-> view, vector |-> vector,
                 result |-> screenToWorld(vector, view)]
    /\ ViewFrame

\* one mousemove of a canvas drag on one object
CanvasDragMove(deltaScreenX, deltaScreenY, camera, view, initialPos, gridSnap) ==
    /\ hLast.op = "none"
    /\ LET worldDelta == screenDeltaToWorldDelta(deltaScreenX, deltaScreenY, camera,
                                                 view, CanvasWidth, CanvasHeight)
           obj == [id |-> 1, position |-> initialPos, gridSnap |-> gridSnap]
       IN  hLast' = [op |-> "drag", view |-> view, initialPos |-> initialPos,
                     gridSnap |-> gridSnap, worldDelta |-> worldDelta,
                     newPos |-> draggedPosition(initialPos, worldDelta, obj)]
    /\ ViewFrame

PixelsX == { 100, 400, 600 }
PixelsY == { 60, 300, 400 }
Zooms == { 1, 2 }
PanOffsets == { [x |-> 0, y |-> 0], [x |-> 3000, y |-> -2000] }
ProbeSteps == { 200 }
PanSteps == { 1000 }

\* handleDrop's conversion of a pixel in an axis-aligned view, and the pixel
\* the gizmo would draw the result at
ScreenToWorldAt(screenX, screenY, view, zoom, panOffset) ==
    /\ hLast.op = "none"
    /\ view \in AxisViews
    /\ LET camera == setupCameraForView(view, zoom, panOffset)
           result == screenToWorldAt(screenX, screenY, camera, view,
                                     CanvasWidth, CanvasHeight)
       IN  hLast' = [op |-> "screenToWorldAt", view |-> view,
                     screenX |-> screenX, screenY |-> screenY,
                     zoom |-> zoom, panOffset |-> panOffset,
                     result |-> result,
                     screen |-> worldToScreen(result, camera, CanvasWidth, CanvasHeight)]
    /\ ViewFrame

\* what a step to the right and a step up on the screen become in the world:
\* as a drag delta, as a pan offset, and (in the axis-aligned views, where the
\* camera is built) as the difference of two screenToWorld results
ViewAxes(view, zoom, panOffset, screenX, screenY, step, panStep) ==
    /\ hLast.op = "none"
    /\ LET frustum == Spread(createOrthographicCamera, [zoom |-> zoom])
           at(px, py) == screenToWorldAt(px, py, setupCameraForView(view, zoom, panOffset),
                                         view, CanvasWidth, CanvasHeight)
       IN  hLast' =
             [op |-> "viewAxes", view |-> view,
              delta |-> [right |-> screenDeltaToWorldDelta(step, 0, frustum, view,
                                                           CanvasWidth, CanvasHeight),
                         up |-> screenDeltaToWorldDelta(0, -step, frustum, view,
                                                        CanvasWidth, CanvasHeight)],
              pan |-> [right |-> panOffsetToWorld(view, [x |-> panStep, y |-> 0]),
                       up |-> panOffsetToWorld(view, [x |-> 0, y |-> panStep])],
              point |-> IF view \in AxisViews
                        THEN [right |-> subtractVectors(at(screenX + step, screenY),
                                                        at(screenX, screenY)),
                              up |-> subtractVectors(at(screenX, screenY - step),
                                                     at(screenX, screenY))]
                        ELSE [right |-> Zero, up |-> Zero],
              zoom |-> zoom, panOffset |-> panOffset,
              screenX |-> screenX, screenY |-> screenY]
    /\ ViewFrame

SnapValues == -9 .. 9

GridSizes == 1 .. 4

\* snapToGrid applied once, and again to its own result
SnapToGrid(value, gridSize) ==
    /\ hLast.op = "none"
    /\ hLast' = [op |-> "snapToGrid", value |-> value, gridSize |-> gridSize,
                 once |-> snapToGrid(value, gridSize),
                 twice |-> snapToGrid(snapToGrid(value, gridSize), gridSize)]
    /\ ViewFrame

ViewNext ==
    \/ \E vector \in UnprojectedVectors, view \in ViewTypes : ScreenToWorld(vector, view)
    \/ \E value \in SnapValues, gridSize \in GridSizes : SnapToGrid(value, gridSize)
    \/ \E screenX \in PixelsX, screenY \in PixelsY, view \in ViewTypes, zoom \in Zooms,
          panOffset \in PanOffsets : ScreenToWorldAt(screenX, screenY, view, zoom, panOffset)
    \/ \E view \in ViewTypes, zoom \in Zooms, panOffset \in PanOffsets,
          screenX \in PixelsX, screenY \in PixelsY, step \in ProbeSteps, panStep \in PanSteps :
          ViewAxes(view, zoom, panOffset, screenX, screenY, step, panStep)
    \/ \E dx \in ScreenDeltasX, dy \in ScreenDeltasY, camera \in Cameras,
          view \in ViewTypes, initialPos \in StartPositions, gridSnap \in BOOLEAN :
          CanvasDragMove(dx, dy, camera, view, initialPos, gridSnap)

SpecView == ViewInit /\ [][ViewNext]_vars

(***************************************************************************)
(* lib/geometry/alignment.ts: the align and distribute functions of the    *)
(* toolbar, called once each on a selection. The file holds two            *)
(* definitions of each function: the first reads obj.localPosition as the  *)
(* centre of the object, the second reads obj.position as its lower        *)
(* corner. A selected object carries both fields, with the same value.     *)
(* Coordinates and sizes are whole multiples of 60 and 120, so that every  *)
(* half, average and gap the functions compute is whole.                   *)
(***************************************************************************)

MaxSelected == 4

AlignmentTypes == { "left", "center", "right", "top", "middle", "bottom" }

DistributionTypes == { "horizontal", "vertical" }

Definitions == { "first", "second" }

\* Math.min(...values) and Math.max(...values) of a non-empty array
MathMin(values) ==
    CHOOSE v \in { values[i] : i \in DOMAIN values } :
        \A i \in DOMAIN values : v <= values[i]

MathMax(values) ==
    CHOOSE v \in { values[i] : i \in DOMAIN values } :
        \A i \in DOMAIN values : v >= values[i]

\* values.reduce((sum, v) => sum + v, 0)
RECURSIVE reduceSum(_)
reduceSum(values) ==
    IF values = <<>> THEN 0
    ELSE reduceSum(SubSeq(values, 1, Len(values) - 1)) + values[Len(values)]

\* [...objects].sort((a, b) => keys(a) - keys(b)): the stable sort, keys[i]
\* being the key of objects[i]
sort(objects, keys) ==
    LET before(i, j) == keys[i] < keys[j] \/ (keys[i] = keys[j] /\ i < j)
        rank(i) == 1 + Cardinality({ j \in DOMAIN objects : before(j, i) })
    IN  [r \in DOMAIN objects |-> objects[CHOOSE i \in DOMAIN objects : rank(i) = r]]

\* every object given back the place it already has
alignObjects_unmoved(objects, alignment) ==
    IF Len(objects) < 2 THEN <<>>
    ELSE [i \in DOMAIN objects |->
            [id |-> objects[i].id, position |-> objects[i].localPosition]]

\* every object put on the origin
alignObjects_toOrigin(objects, alignment) ==
    IF Len(objects) < 2 THEN <<>>
    ELSE [i \in DOMAIN objects |-> [id |-> objects[i].id, position |-> Zero]]

\* alignObjects, first definition: positions are centres
alignObjects(objects, alignment) ==
    IF Len(objects) < 2 THEN <<>>
    ELSE LET x == [i \in DOMAIN objects |-> objects[i].localPosition.x]
             y == [i \in DOMAIN objects |-> objects[i].localPosition.y]
             halfWidth == [i \in DOMAIN objects |-> objects[i].dimensions.width \div 2]
             halfHeight == [i \in DOMAIN objects |-> objects[i].dimensions.height \div 2]
             minLeftEdge == MathMin([i \in DOMAIN objects |-> x[i] - halfWidth[i]])
             avgCenterX == reduceSum(x) \div Len(objects)
             maxRightEdge == MathMax([i \in DOMAIN objects |-> x[i] + halfWidth[i]])
             maxTopEdge == MathMax([i \in DOMAIN objects |-> y[i] + halfHeight[i]])
             avgCenterY == reduceSum(y) \div Len(objects)
             minBottomEdge == MathMin([i \in DOMAIN objects |-> y[i] - halfHeight[i]])
             newPosition(i) ==
                 CASE alignment = "left" ->
                        [objects[i].localPosition EXCEPT !.x = minLeftEdge + halfWidth[i]]
                   [] alignment = "center" ->
                        [objects[i].localPosition EXCEPT !.x = avgCenterX]
                   [] alignment = "right" ->
                        [objects[i].localPosition EXCEPT !.x = maxRightEdge - halfWidth[i]]
                   [] alignment = "top" ->
                        [objects[i].localPosition EXCEPT !.y = maxTopEdge - halfHeight[i]]
                   [] alignment = "middle" ->
                        [objects[i].localPosition EXCEPT !.y = avgCenterY]
                   [] alignment = "bottom" ->
                        [objects[i].localPosition EXCEPT !.y = minBottomEdge + halfHeight[i]]
         IN  [i \in DOMAIN objects |-> [id |-> objects[i].id, position |-> newPosition(i)]]

\* alignObjects, second definition: positions are lower corners
alignObjects2(objects, alignment) ==
    IF Len(objects) < 2 THEN <<>>
    ELSE LET x == [i \in DOMAIN objects |-> objects[i].position.x]
             y == [i \in DOMAIN objects |-> objects[i].position.y]
             width == [i \in DOMAIN objects |-> objects[i].dimensions.width]
             height == [i \in DOMAIN objects |-> objects[i].dimensions.height]
             minX == MathMin(x)
             avgCenterX == reduceSum([i \in DOMAIN objects |-> x[i] + width[i] \div 2])
                               \div Len(objects)
             maxX == MathMax([i \in DOMAIN objects |-> x[i] + width[i]])
             maxY == MathMax([i \in DOMAIN objects |-> y[i] + height[i]])
             avgCenterY == reduceSum([i \in DOMAIN objects |-> y[i] + height[i] \div 2])
                               \div Len(objects)
             minY == MathMin(y)
             newPosition(i) ==
                 CASE alignment = "left" ->
                        [objects[i].position EXCEPT !.x = minX]
                   [] alignment = "center" ->
                        [objects[i].position EXCEPT !.x = avgCenterX - width[i] \div 2]
                   [] alignment = "right" ->
                        [objects[i].position EXCEPT !.x = maxX - width[i]]
                   [] alignment = "top" ->
                        [objects[i].position EXCEPT !.y = maxY - height[i]]
                   [] alignment = "middle" ->
                        [objects[i].position EXCEPT !.y = avgCenterY - height[i] \div 2]
                   [] alignment = "bottom" ->
                        [objects[i].position EXCEPT !.y = minY]
         IN  [i \in DOMAIN objects |-> [id |-> objects[i].id, position |-> newPosition(i)]]

\* distributeObjects, first definition: equal gaps between the centres
distributeObjects(objects, distribution) ==
    IF Len(objects) < 3 THEN <<>>
    ELSE LET axis == IF distribution = "horizontal" THEN "x" ELSE "y"
             sorted == sort(objects, [i \in DOMAIN objects |-> objects[i].localPosition[axis]])
             leftmostCenter == sorted[1].localPosition[axis]
             rightmostCenter == sorted[Len(sorted)].localPosition[axis]
             totalCenterSpan == rightmostCenter - leftmostCenter
             centerGap == totalCenterSpan \div (Len(sorted) - 1)
         IN  IF Len(sorted) = 2 \/ totalCenterSpan = 0 THEN <<>>
             ELSE [index \in 1 .. Len(sorted) - 2 |->
                     [id |-> sorted[index + 1].id,
                      position |-> [sorted[index + 1].localPosition
                                       EXCEPT ![axis] = leftmostCenter + index * centerGap]]]

\* distributeObjects, second definition: equal gaps between the boxes
distributeObjects2(objects, distribution) ==
    IF Len(objects) < 3 THEN <<>>
    ELSE LET axis == IF distribution = "horizontal" THEN "x" ELSE "y"
             size(obj) == IF distribution = "horizontal" THEN obj.dimensions.width
                          ELSE obj.dimensions.height
             sorted == sort(objects, [i \in DOMAIN objects |-> objects[i].position[axis]])
             leftmost == sorted[1].position[axis]
             rightmost == sorted[Len(sorted)].position[axis] + size(sorted[Len(sorted)])
             totalWidth == reduceSum([i \in DOMAIN sorted |-> size(sorted[i])])
             totalGap == rightmost - leftmost - totalWidth
             gap == totalGap \div (Len(sorted) - 1)
             \* currentX when the loop reaches sorted[index + 1]
             currentX(index) ==
                 leftmost + reduceSum([i \in 1 .. index |-> size(sorted[i]) + gap])
         IN  [index \in 1 .. Len(sorted) - 2 |->
                 [id |-> sorted[index + 1].id,
                  position |-> [sorted[index + 1].position EXCEPT ![axis] = currentX(index)]]]

\* the places and the sizes a selected object is drawn from
AlignPositions == { Vec(0, 0, 60), Vec(180, 120, -60), Vec(-120, 120, 0) }

AlignDimensions ==
    { [width |-> 120, height |-> 240, depth |-> 120],
      [width |-> 360, height |-> 120, depth |-> 240] }

\* selections of up to MaxSelected objects, object i having id i
Selections ==
    UNION { [1 .. n -> AlignPositions \X AlignDimensions] : n \in 0 .. MaxSelected }

selectedObjects(selection) ==
    [i \in DOMAIN selection |->
        [id |-> i, localPosition |-> selection[i][1], position |-> selection[i][1],
         dimensions |-> selection[i][2]]]

AlignInit ==
    /\ hLast = [op |-> "none"]
    /\ hObjects \in { selectedObjects(selection) : selection \in Selections }
    /\ hAssemblies = <<>>
    /\ StoreIdle

AlignFrame == UNCHANGED <<hObjects, hAssemblies, tabs, activeTabIndex, nextId, last, ui>>

AlignObjects(definition, alignment) ==
    /\ hLast.op = "none"
    /\ hLast' = [op |-> "alignObjects", definition |-> definition, mode |-> alignment,
                 objects |-> hObjects,
                 updates |-> IF definition = "first" THEN alignObjects(hObjects, alignment)
                             ELSE alignObjects2(hObjects, alignment)]
    /\ AlignFrame

DistributeObjects(definition, distribution) ==
    /\ hLast.op = "none"
    /\ hLast' = [op |-> "distributeObjects", definition |-> definition, mode |-> distribution,
                 objects |-> hObjects,
                 updates |-> IF definition = "first"
                             THEN distributeObjects(hObjects, distribution)
                             ELSE distributeObjects2(hObjects, distribution)]
    /\ AlignFrame

AlignNext ==
    \/ \E definition \in Definitions, alignment \in AlignmentTypes :
          AlignObjects(definition, alignment)
    \/ \E definition \in Definitions, distribution \in DistributionTypes :
          DistributeObjects(definition, distribution)

SpecAlign == AlignInit /\ [][AlignNext]_vars

(***************************************************************************)
(* User actions on the whole selection: the align and distribute buttons   *)
(* of Layout/AlignmentToolbar.tsx, the arrow keys of Canvas.tsx and the    *)
(* Delete key and Ctrl+Z of hooks/useKeyboardShortcuts.ts. Each handler    *)
(* is one step made of the store calls it issues, in order; the selection  *)
(* and the objects it iterates over are the ones of the last render.       *)
(***************************************************************************)

MaxActions == 2

\* objects.filter((obj) => selectedObjectIds.includes(obj.id))
selectedObjectsOf(tab) ==
    SelectSeq(tab.objects, LAMBDA obj : SeqContains(tab.selectedObjectIds, obj.id))

\* updates.forEach((position, id) => updateObject(id, { position }))
RECURSIVE updateEach(_, _)
updateEach(tab, updates) ==
    IF updates = <<>> THEN tab
    ELSE updateEach(updateObject(tab, updates[1].id, [position |-> updates[1].position], FALSE),
                    Tail(updates))

handleAlign(tab, alignment, definition) ==
    updateEach(tab, IF definition = "first" THEN alignObjects(selectedObjectsOf(tab), alignment)
                    ELSE alignObjects2(selectedObjectsOf(tab), alignment))

handleDistribute(tab, distribution, definition) ==
    IF Len(selectedObjectsOf(tab)) < 3 THEN tab
    ELSE updateEach(tab, IF definition = "first"
                         THEN distributeObjects(selectedObjectsOf(tab), distribution)
                         ELSE distributeObjects2(selectedObjectsOf(tab), distribution))

ArrowKeys == { "ArrowUp", "ArrowDown", "ArrowLeft", "ArrowRight" }

\* the switch on camera.currentView: the world delta of an arrow key
arrowKeyDelta(view, key, stepSize) ==
    LET left == key = "ArrowLeft"
        right == key = "ArrowRight"
        up == key = "ArrowUp"
        down == key = "ArrowDown"
        signed(minus, plus) == IF plus THEN stepSize ELSE IF minus THEN -stepSize ELSE 0
    IN  CASE view = "front" -> Vec(signed(left, right), signed(down, up), 0)
          [] view = "back" -> Vec(signed(right, left), signed(down, up), 0)
          [] view = "left" -> Vec(0, signed(down, up), signed(left, right))
          [] view = "right" -> Vec(0, signed(down, up), signed(right, left))
          [] view = "top" -> Vec(signed(left, right), 0, signed(up, down))
          [] view = "bottom" -> Vec(signed(left, right), 0, signed(down, up))
          [] OTHER -> Zero

\* selectedObjectIds.forEach(...) of the arrow-key branch
RECURSIVE moveEach(_, _, _, _, _, _)
moveEach(tab, ids, objects, delta, shiftKey, increment) ==
    IF ids = <<>> THEN tab
    ELSE LET obj == findNode(ids[1], objects, <<>>)
             moved == addVectors(obj.position, delta)
             newPos == IF obj.gridSnap /\ ~shiftKey THEN snapVectorToGrid(moved, increment)
                       ELSE moved
         IN  IF obj.id = None
             THEN moveEach(tab, Tail(ids), objects, delta, shiftKey, increment)
             ELSE moveEach(updateObject(tab, ids[1], [position |-> newPos], FALSE),
                           Tail(ids), objects, delta, shiftKey, increment)

handleArrowKey(tab, key, shiftKey, increment) ==
    LET stepSize == IF shiftKey THEN increment \div 8 ELSE increment
    IN  moveEach(pushToHistory(tab), tab.selectedObjectIds, tab.objects,
                 arrowKeyDelta(tab.camera.currentView, key, stepSize), shiftKey, increment)

\* selectedObjectIds.forEach((id) => removeObject(id)); a removeObject that
\* throws ends the loop
RECURSIVE removeEach(_, _)
removeEach(tab, ids) ==
    IF ids = <<>> THEN tab
    ELSE IF deleteNodeCascadeThrows(ids[1], tab.objects, tab.assemblies) THEN tab
    ELSE removeEach(deleteNode(tab, ids[1]), Tail(ids))

\* a document of four boards; objects[i] has id i
EditObjects ==
    << [id |-> 1, parentId |-> None, localPosition |-> Vec(0, 0, 60),
        position |-> Vec(0, 0, 60), gridSnap |-> TRUE,
        dimensions |-> [width |-> 120, height |-> 240, depth |-> 120]],
       [id |-> 2, parentId |-> None, localPosition |-> Vec(180, 120, -60),
        position |-> Vec(180, 120, -60), gridSnap |-> FALSE,
        dimensions |-> [width |-> 360, height |-> 120, depth |-> 240]],
       [id |-> 3, parentId |-> None, localPosition |-> Vec(-120, 360, 0),
        position |-> Vec(-120, 360, 0), gridSnap |-> TRUE,
        dimensions |-> [width |-> 120, height |-> 240, depth |-> 120]],
       [id |-> 4, parentId |-> None, localPosition |-> Vec(60, -120, 0),
        position |-> Vec(60, -120, 0), gridSnap |-> FALSE,
        dimensions |-> [width |-> 360, height |-> 120, depth |-> 240]] >>

\* the selections the user can have made by clicking, in click order
EditSelections == { <<>>, <<1>>, <<2, 1>>, <<1, 3>>, <<3, 1, 2>>, <<1, 2, 3, 4>> }

EditViews == { "front", "top", "iso-front-right" }

NudgeIncrements == { 8 }

NoAction == [op |-> "none", step |-> 0]

EditInit ==
    /\ \E selection \in EditSelections, view \in EditViews :
          tabs = << [createEmptyTab EXCEPT !.objects = EditObjects,
                                            !.selectedObjectIds = selection,
                                            !.camera.currentView = view] >>
    /\ activeTabIndex = 1
    /\ nextId = Len(EditObjects) + 1
    /\ last = NoAction
    /\ hObjects = <<>> /\ hAssemblies = <<>> /\ hLast = [op |-> "none"]
    /\ ui = [phase |-> "off"]

EditFrame == UNCHANGED <<hObjects, hAssemblies, hLast, activeTabIndex, nextId, ui>>

CanAct == last.step < MaxActions

\* what a user action leaves behind: the tab before and after it, and the
\* record of the action before it
UserAction(op, after) ==
    /\ SetActive(after)
    /\ last' = [op |-> op, step |-> last.step + 1, before |-> Active, after |-> after,
                previous |-> [op |-> last.op,
                              before |-> IF last.op = "none" THEN Active ELSE last.before,
                              after |-> IF last.op = "none" THEN Active ELSE last.after]]
    /\ EditFrame

\* the toolbar is rendered when at least one object is selected
HandleAlign(alignment, definition) ==
    /\ CanAct
    /\ Len(selectedObjectsOf(Active)) >= 1
    /\ UserAction("align", handleAlign(Active, alignment, definition))

HandleDistribute(distribution, definition) ==
    /\ CanAct
    /\ Len(selectedObjectsOf(Active)) >= 1
    /\ UserAction("distribute", handleDistribute(Active, distribution, definition))

ArrowKeyDown(key, shiftKey, increment) ==
    /\ CanAct
    /\ Len(Active.selectedObjectIds) > 0
    /\ UserAction("nudge", handleArrowKey(Active, key, shiftKey, increment))

DeleteKeyDown ==
    /\ CanAct
    /\ Len(Active.selectedObjectIds) > 0
    /\ UserAction("delete", removeEach(Active, Active.selectedObjectIds))

\* Ctrl+Z: if (canUndo()) undo()
UndoKeyDown ==
    /\ CanAct
    /\ UserAction("undo", IF Len(Active.undoStack) > 0 THEN undo(Active) ELSE Active)

EditNext ==
    \/ \E alignment \in AlignmentTypes, definition \in Definitions :
          HandleAlign(alignment, definition)
    \/ \E distribution \in DistributionTypes, definition \in Definitions :
          HandleDistribute(distribution, definition)
    \/ \E key \in ArrowKeys, shiftKey \in BOOLEAN, increment \in NudgeIncrements :
          ArrowKeyDown(key, shiftKey, increment)
    \/ DeleteKeyDown
    \/ UndoKeyDown

SpecEdit == EditInit /\ [][EditNext]_vars

(***************************************************************************)
(* Declarative notions the claims are stated with                          *)
(***************************************************************************)
Range(s) == { s[i] : i \in 1 .. Len(s) }

NodeSet(objects, assemblies) == Range(objects) \cup Range(assemblies)

NodeIds(objects, assemblies) == { n.id : n \in NodeSet(objects, assemblies) }

IsObject(id, objects) == \E o \in Range(objects) : o.id = id

\* the nodes one link below id: the childIds of an assembly, the nodes whose
\* parentId is a node that carries a position
LinkedBelow(id, objects, assemblies) ==
    LET nodes == NodeSet(objects, assemblies)
    IN  UNION { IF "childIds" \in DOMAIN n THEN Range(n.childIds) ELSE {} :
                    n \in { m \in nodes : m.id = id } }
        \cup
        { c.id : c \in { m \in nodes :
                           /\ m.parentId = id
                           /\ \E n \in nodes : n.id = id /\ "localPosition" \in DOMAIN n } }

RECURSIVE ReachBelow(_, _, _)
ReachBelow(S, objects, assemblies) ==
    LET S2 == S \cup UNION { LinkedBelow(x, objects, assemblies) : x \in S }
    IN  IF S2 = S THEN S ELSE ReachBelow(S2, objects, assemblies)

DescendantSet(id, objects, assemblies) ==
    ReachBelow(LinkedBelow(id, objects, assemblies), objects, assemblies)

ParentOf(id, objects, assemblies) ==
    LET ns == { n \in NodeSet(objects, assemblies) : n.id = id }
    IN  IF ns = {} THEN None ELSE (CHOOSE n \in ns : TRUE).parentId

RECURSIVE ReachAbove(_, _, _)
ReachAbove(S, objects, assemblies) ==
    LET S2 == S \cup ({ ParentOf(x, objects, assemblies) : x \in S } \ {None})
    IN  IF S2 = S THEN S ELSE ReachAbove(S2, objects, assemblies)

\* the ids on the parentId chain above id
AncestorSet(id, objects, assemblies) ==
    ReachAbove({ParentOf(id, objects, assemblies)} \ {None}, objects, assemblies)

\* the parentId relation is a forest
IsForest(objects, assemblies) ==
    \A id \in NodeIds(objects, assemblies) : id \notin AncestorSet(id, objects, assemblies)

\* childIds and parentId describe the same links, and every link ends at a node
LinksAgree(objects, assemblies) ==
    LET nodes == NodeSet(objects, assemblies)
    IN  /\ \A a \in Range(assemblies) :
              "childIds" \in DOMAIN a =>
                  \A c \in Range(a.childIds) :
                      \E n \in nodes : n.id = c /\ n.parentId = a.id
        /\ \A n \in nodes :
              n.parentId # None =>
                  \E p \in nodes :
                      /\ p.id = n.parentId
                      /\ ("childIds" \in DOMAIN p => n.id \in Range(p.childIds))

\* the sum of f[e] over e in S, f a function to vectors
RECURSIVE SumVec(_, _)
SumVec(S, f) ==
    IF S = {} THEN Zero
    ELSE LET e == CHOOSE e \in S : TRUE
         IN  Vec(f[e].x + SumVec(S \ {e}, f).x,
                 f[e].y + SumVec(S \ {e}, f).y,
                 f[e].z + SumVec(S \ {e}, f).z)

\* C1 (SpecHierarchy): reparentNode of an object to a target that
\* validateHierarchy accepts leaves the object's world position unchanged.
C1_ReparentPreservesWorldPosition ==
    ( /\ hLast.op = "reparentNode"
      /\ IsObject(hLast.nodeId, hLast.objects)
      /\ validateHierarchy(hLast.nodeId, hLast.newParentId,
                           hLast.objects, hLast.assemblies).valid )
    => computeWorldTransform(hLast.nodeId, hObjects, hAssemblies).position
         = computeWorldTransform(hLast.nodeId, hLast.objects, hLast.assemblies).position

\* an object was moved from under one positioned parent to under another one
C1_Witness ==
    /\ hLast.op = "reparentNode"
    /\ IsObject(hLast.nodeId, hLast.objects)
    /\ IsObject(hLast.newParentId, hLast.objects)
    /\ validateHierarchy(hLast.nodeId, hLast.newParentId, hLast.objects, hLast.assemblies).valid
    /\ ParentOf(hLast.nodeId, hObjects, hAssemblies) = hLast.newParentId
    /\ ParentOf(hLast.nodeId, hLast.objects, hLast.assemblies)
          \notin {None, hLast.newParentId}
    /\ IsObject(ParentOf(hLast.nodeId, hLast.objects, hLast.assemblies), hLast.objects)
    /\ findNode(hLast.nodeId, hObjects, hAssemblies).localPosition
          # findNode(hLast.nodeId, hLast.objects, hLast.assemblies).localPosition

\* C2 (SpecHierarchy): reparentNode(id, id) and reparentNode(id, d) for a
\* descendant d of id return the arrays they were given.
C2_SelfAndDescendantRejected ==
    ( /\ hLast.op = "reparentNode"
      /\ \/ hLast.newParentId = hLast.nodeId
         \/ hLast.newParentId \in DescendantSet(hLast.nodeId, hLast.objects, hLast.assemblies) )
    => /\ hObjects = hLast.objects
       /\ hAssemblies = hLast.assemblies

\* a node was asked to move under a descendant that is two links below it
C2_Witness ==
    /\ hLast.op = "reparentNode"
    /\ hLast.newParentId \in DescendantSet(hLast.nodeId, hLast.objects, hLast.assemblies)
    /\ hLast.newParentId \notin LinkedBelow(hLast.nodeId, hLast.objects, hLast.assemblies)
    /\ hObjects = hLast.objects

\* C4 (SpecHierarchy): on a hierarchy whose links agree, deleteNodeCascade
\* removes the node and all its descendants and leaves no reference to a
\* removed node, neither as parentId nor in childIds.
C4_CascadeDeleteLeavesNoDangling ==
    ( /\ hLast.op = "deleteNodeCascade"
      /\ LinksAgree(hLast.objects, hLast.assemblies) )
    => LET removed == { id \in NodeIds(hLast.objects, hLast.assemblies) :
                          \/ id = hLast.nodeId
                          \/ hLast.nodeId \in AncestorSet(id, hLast.objects, hLast.assemblies) }
           remaining == NodeIds(hObjects, hAssemblies)
       IN  /\ remaining = NodeIds(hLast.objects, hLast.assemblies) \ removed
           /\ \A n \in NodeSet(hObjects, hAssemblies) :
                 n.parentId = None \/ n.parentId \in remaining
           /\ \A a \in Range(hAssemblies) :
                 "childIds" \in DOMAIN a => Range(a.childIds) \cap removed = {}

\* a node with a parent assembly and with descendants two links deep was deleted
C4_Witness ==
    /\ hLast.op = "deleteNodeCascade"
    /\ LinksAgree(hLast.objects, hLast.assemblies)
    /\ Len(hLast.objects) + Len(hLast.assemblies) = MaxNodes
    /\ Len(hObjects) + Len(hAssemblies) = MaxNodes - 2
    /\ ~IsObject(ParentOf(hLast.nodeId, hLast.objects, hLast.assemblies), hLast.objects)
    /\ ParentOf(hLast.nodeId, hLast.objects, hLast.assemblies)
          \in NodeIds(hObjects, hAssemblies)

\* C10 (SpecHierarchy): for a chain of objects up to a parentless root,
\* computeWorldTransform(leaf) is the component-wise sum of the local positions
\* and of the rotations of the objects of the chain.
ObjectChain(id, objects, assemblies) ==
    {id} \cup AncestorSet(id, objects, assemblies)

IsObjectChain(id, objects, assemblies) ==
    /\ IsObject(id, objects)
    /\ \A a \in ObjectChain(id, objects, assemblies) : IsObject(a, objects)
    /\ id \notin AncestorSet(id, objects, assemblies)

C10_WorldTransformIsChainSum ==
    \A id \in NodeIds(hObjects, hAssemblies) :
        IsObjectChain(id, hObjects, hAssemblies) =>
            LET chain == ObjectChain(id, hObjects, hAssemblies)
                wt == computeWorldTransform(id, hObjects, hAssemblies)
            IN  /\ wt.position =
                      SumVec(chain, [a \in chain |-> findNode(a, hObjects, hAssemblies).localPosition])
                /\ wt.rotation =
                      SumVec(chain, [a \in chain |-> findNode(a, hObjects, hAssemblies).rotation])

\* the leaf of a chain of MaxNodes objects, whose rotations do not all vanish,
\* was moved in world space
C10_Witness ==
    /\ hLast.op = "moveNodeInWorldSpace"
    /\ IsObjectChain(hLast.nodeId, hObjects, hAssemblies)
    /\ Cardinality(ObjectChain(hLast.nodeId, hObjects, hAssemblies)) = MaxNodes
    /\ computeWorldTransform(hLast.nodeId, hObjects, hAssemblies).rotation # Zero
    /\ computeWorldTransform(hLast.nodeId, hObjects, hAssemblies).position
          = addVectors(computeWorldTransform(hLast.nodeId, hLast.objects,
                                             hLast.assemblies).position,
                       hLast.worldDelta)

(***************************************************************************)
(* Claims about the store (Spec) and about drag gestures (SpecDrag)        *)
(***************************************************************************)
\* the last store call changed objects or assemblies, was not called with
\* skipHistory, and was neither undo nor redo
ChangedDocument ==
    /\ last.op \notin {"none", "undo", "redo"}
    /\ ~last.skipHistory
    /\ createSnapshot(Active) # createSnapshot(last.before)

\* C3 (Spec): starting from an empty document, after any sequence of store
\* operations the parentId relation of the active document is a forest: no
\* node is reachable from itself by following parentId links.
C3_ParentRelationIsForest ==
    HasActiveTab => IsForest(Active.objects, Active.assemblies)

\* C5 (Spec), for N = 1: after one store operation that changed objects or
\* assemblies and was not called with skipHistory, one undo() leaves objects
\* and assemblies equal to their values before that operation.
C5_UndoRestoresDocument ==
    ChangedDocument => createSnapshot(undo(Active)) = createSnapshot(last.before)

\* C6 (Spec): when the undo stack is non-empty, undo() followed immediately by
\* redo() leaves objects, assemblies, undoStack and redoStack equal to their
\* values just before the undo().
C6_UndoThenRedoRestores ==
    ( /\ last.op = "undo"
      /\ Len(last.before.undoStack) > 0 )
    => /\ redo(Active).objects = last.before.objects
       /\ redo(Active).assemblies = last.before.assemblies
       /\ redo(Active).undoStack = last.before.undoStack
       /\ redo(Active).redoStack = last.before.redoStack

\* an undo that took an object out of the document again
C6_Witness ==
    /\ last.op = "undo"
    /\ Len(last.before.undoStack) > 1
    /\ Len(Active.objects) < Len(last.before.objects)
    /\ Len(Active.redoStack) = 1
    /\ redo(Active).objects = last.before.objects

\* C7 (Spec): every store operation that changes objects or assemblies and is
\* not called with skipHistory appends exactly one entry, the pre-operation
\* {objects, assemblies}, to the undo stack and leaves the redo stack empty.
C7_ChangePushesOneSnapshot ==
    ChangedDocument
    => /\ Active.undoStack = Append(last.before.undoStack, createSnapshot(last.before))
       /\ Active.redoStack = <<>>

\* C8 (SpecDrag): over one drag gesture (pointer down on an object or on a
\* gizmo axis, at least one pointer move, pointer up) the undo stack grows by
\* exactly one entry, which holds the document from before the first move.
C8_DragPushesOneSnapshot ==
    ( /\ ui.phase = "idle"
      /\ ui.gestures > 0
      /\ ui.moves > 0 )
    => Active.undoStack = Append(ui.undoAtDown, ui.docAtDown)

\* C9 (Spec): a store reparentNode call that validateHierarchy rejects, or that
\* names a node that does not exist, leaves objects, assemblies, undoStack,
\* redoStack and hasUnsavedChanges of the active document unchanged.
C9_RejectedReparentIsNoOp ==
    ( /\ last.op = "reparentNode"
      /\ \/ findNode(last.nodeId, last.before.objects, last.before.assemblies) = NotFound
         \/ ~validateHierarchy(last.nodeId, last.newParentId,
                               last.before.objects, last.before.assemblies).valid )
    => /\ Active.objects = last.before.objects
       /\ Active.assemblies = last.before.assemblies
       /\ Active.undoStack = last.before.undoStack
       /\ Active.redoStack = last.before.redoStack
       /\ Active.hasUnsavedChanges = last.before.hasUnsavedChanges

\* C11 (Spec): computeWorldTransform returns the identity transform for an id
\* that names no node and for every assembly of the document, whatever the
\* assembly's parent chain, so that an object whose parent is an assembly has
\* a world position equal to its localPosition.
C11_AssemblyTransformIsIdentity ==
    HasActiveTab =>
        LET objects == Active.objects
            assemblies == Active.assemblies
        IN  /\ computeWorldTransform(GhostId, objects, assemblies) = IdentityTransform
            /\ \A a \in Range(assemblies) :
                  ~computeWorldTransformOverflows(a.id, objects, assemblies)
                  => computeWorldTransform(a.id, objects, assemblies) = IdentityTransform
            /\ \A o \in Range(objects) :
                  ( /\ ~computeWorldTransformOverflows(o.id, objects, assemblies)
                    /\ \E a \in Range(assemblies) : a.id = o.parentId )
                  => computeWorldTransform(o.id, objects, assemblies).position
                       = o.localPosition

\* C12 (SpecHierarchy): moveNodeInWorldSpace on an object makes its world
\* position the previous one plus worldDelta and changes nothing but that
\* object's localPosition: its parentId, every other object and every assembly
\* stay as they were.
C12_MoveAddsDeltaAndKeepsRest ==
    ( /\ hLast.op = "moveNodeInWorldSpace"
      /\ IsObject(hLast.nodeId, hLast.objects) )
    => /\ computeWorldTransform(hLast.nodeId, hObjects, hAssemblies).position
            = addVectors(computeWorldTransform(hLast.nodeId, hLast.objects,
                                               hLast.assemblies).position,
                         hLast.worldDelta)
       /\ hAssemblies = hLast.assemblies
       /\ Len(hObjects) = Len(hLast.objects)
       /\ \A i \in 1 .. Len(hObjects) :
             IF hLast.objects[i].id = hLast.nodeId
             THEN hObjects[i] = [hLast.objects[i] EXCEPT
                                   !.localPosition = hObjects[i].localPosition]
             ELSE hObjects[i] = hLast.objects[i]

\* an object under a parent object placed away from the origin was moved
C12_Witness ==
    /\ hLast.op = "moveNodeInWorldSpace"
    /\ IsObject(hLast.nodeId, hLast.objects)
    /\ IsObject(ParentOf(hLast.nodeId, hLast.objects, hLast.assemblies), hLast.objects)
    /\ computeWorldTransform(ParentOf(hLast.nodeId, hLast.objects, hLast.assemblies),
                             hLast.objects, hLast.assemblies).position # Zero
    /\ findNode(hLast.nodeId, hObjects, hAssemblies).localPosition
          # findNode(hLast.nodeId, hLast.objects, hLast.assemblies).localPosition
    /\ Len(hLast.assemblies) > 0

\* C17 (SpecHierarchy): for any target that validateHierarchy accepts,
\* reparentNode of an object leaves computeWorldTransform(id).rotation equal to
\* its value before the call.
C17_ReparentPreservesWorldRotation ==
    ( /\ hLast.op = "reparentNode"
      /\ IsObject(hLast.nodeId, hLast.objects)
      /\ validateHierarchy(hLast.nodeId, hLast.newParentId,
                           hLast.objects, hLast.assemblies).valid )
    => computeWorldTransform(hLast.nodeId, hObjects, hAssemblies).rotation
         = computeWorldTransform(hLast.nodeId, hLast.objects, hLast.assemblies).rotation

\* C13 (Spec): after any sequence of store operations the two child
\* representations agree: every id listed in an assembly's childIds names an
\* existing node whose parentId is that assembly, and every node whose parentId
\* is an assembly is listed in that assembly's childIds.
C13_ChildIdsAgreeWithParentId ==
    HasActiveTab =>
        LET nodes == NodeSet(Active.objects, Active.assemblies)
        IN  /\ \A a \in Range(Active.assemblies) :
                  "childIds" \in DOMAIN a =>
                      \A c \in Range(a.childIds) :
                          \E n \in nodes : n.id = c /\ n.parentId = a.id
            /\ \A n \in nodes, a \in Range(Active.assemblies) :
                  n.parentId = a.id =>
                      /\ "childIds" \in DOMAIN a
                      /\ n.id \in Range(a.childIds)

\* C14 (Spec): after any sequence of store operations with any arguments,
\* every parentId held by an object or an assembly is the id of a node of the
\* same document.
C14_ParentIdsNameNodes ==
    HasActiveTab =>
        \A n \in NodeSet(Active.objects, Active.assemblies) :
            n.parentId # None => n.parentId \in NodeIds(Active.objects, Active.assemblies)

\* C15 (SpecDepth): after a reparentNode call that validateHierarchy accepts,
\* the moved node and every descendant of it have an ancestor chain of length
\* at most 128.
C15_DepthBoundedAfterReparent ==
    ( /\ hLast.op = "reparentNode"
      /\ validateHierarchy(hLast.nodeId, hLast.newParentId,
                           hLast.objects, hLast.assemblies).valid )
    => \A id \in {hLast.nodeId} \cup Range(getDescendants(hLast.nodeId, hObjects, hAssemblies)) :
           Len(getAncestors(id, hObjects, hAssemblies)) <= MaxDepth

\* C16 (SpecDepth): absent self-parent and cycle, validateHierarchy rejects
\* with the depth error exactly when the new ancestor chain of the moved node,
\* newParentId followed by the ancestors of newParentId, has length 128 or more.
C16_DepthErrorExactlyAtLimit ==
    ( /\ hLast.op = "reparentNode"
      /\ hLast.newParentId # None
      /\ hLast.newParentId # hLast.nodeId
      /\ ~SeqContains(getDescendants(hLast.nodeId, hLast.objects, hLast.assemblies),
                      hLast.newParentId) )
    => LET newChain == <<hLast.newParentId>>
                          \o getAncestors(hLast.newParentId, hLast.objects, hLast.assemblies)
           result == validateHierarchy(hLast.nodeId, hLast.newParentId,
                                       hLast.objects, hLast.assemblies)
       IN  /\ (result.error = "depth") <=> (Len(newChain) >= MaxDepth)
           /\ result.valid <=> (Len(newChain) < MaxDepth)

\* what a tab owns
OwnedState(tab) ==
    [objects |-> tab.objects, assemblies |-> tab.assemblies,
     undoStack |-> tab.undoStack, redoStack |-> tab.redoStack,
     selectedObjectIds |-> tab.selectedObjectIds, camera |-> tab.camera]

\* C18 (SpecTabs): a store call that acts on the active tab (any call other
\* than createTab, closeTab and switchToTab) keeps the number of tabs and the
\* active index, and leaves the objects, assemblies, undoStack, redoStack,
\* selectedObjectIds and camera of every other tab as they were.
C18_OtherTabsUnchanged ==
    [][ (last' # last /\ last'.op \notin TabOps)
        => /\ Len(tabs') = Len(tabs)
           /\ activeTabIndex' = activeTabIndex
           /\ \A i \in 1 .. Len(tabs) :
                  i # activeTabIndex => OwnedState(tabs'[i]) = OwnedState(tabs[i]) ]_vars

\* two tabs are open, the other tab holds objects and history, and the last
\* call changed the active tab
C18_Witness ==
    /\ Len(tabs) = MaxTabs
    /\ HasActiveTab
    /\ last.op \notin TabOps \cup {"none"}
    /\ Active # last.before
    /\ \E i \in 1 .. Len(tabs) :
          /\ i # activeTabIndex
          /\ Len(tabs[i].objects) > 0
          /\ Len(tabs[i].undoStack) > 0

\* the axis a view looks along
DepthAxis(view) ==
    CASE view \in {"front", "back"} -> "z"
      [] view \in {"top", "bottom"} -> "y"
      [] view \in {"left", "right"} -> "x"

\* C19 (SpecView): in each of the six axis-aligned views screenToWorld returns
\* zero on the depth axis of the view, whatever point the unprojection gave.
C19_ScreenToWorldDepthIsZero ==
    (hLast.op = "screenToWorld" /\ hLast.view \in AxisViews)
    => hLast.result[DepthAxis(hLast.view)] = 0

\* screenToWorld was applied in the top view to a point with no zero coordinate
C19_Witness ==
    /\ hLast.op = "screenToWorld"
    /\ hLast.view = "top"
    /\ hLast.vector.x # 0 /\ hLast.vector.y # 0 /\ hLast.vector.z # 0
    /\ hLast.result.y = 0
    /\ hLast.result.z = -hLast.vector.y

\* C20 (SpecView): a canvas drag in an axis-aligned view, with gridSnap on or
\* off, leaves the coordinate of the object on the depth axis of the view at
\* its value at drag start.
C20_DragKeepsDepth ==
    (hLast.op = "drag" /\ hLast.view \in AxisViews)
    => hLast.newPos[DepthAxis(hLast.view)] = hLast.initialPos[DepthAxis(hLast.view)]

\* the signs of the components of a vector
SignVec(v) == Vec(SignOf(v.x), SignOf(v.y), SignOf(v.z))

\* the signed world axes of screen-right and screen-up the views are said to have
ClaimedAxes(view) ==
    CASE view = "front"  -> [right |-> Vec(1, 0, 0),  up |-> Vec(0, 1, 0)]
      [] view = "back"   -> [right |-> Vec(-1, 0, 0), up |-> Vec(0, 1, 0)]
      [] view = "left"   -> [right |-> Vec(0, 0, 1),  up |-> Vec(0, 1, 0)]
      [] view = "right"  -> [right |-> Vec(0, 0, -1), up |-> Vec(0, 1, 0)]
      [] view = "top"    -> [right |-> Vec(1, 0, 0),  up |-> Vec(0, 0, -1)]
      [] view = "bottom" -> [right |-> Vec(1, 0, 0),  up |-> Vec(0, 0, 1)]
      [] view = "iso-front-right" -> [right |-> Vec(1, 0, 1),   up |-> Vec(0, 1, 0)]
      [] view = "iso-front-left"  -> [right |-> Vec(-1, 0, 1),  up |-> Vec(0, 1, 0)]
      [] view = "iso-back-right"  -> [right |-> Vec(1, 0, -1),  up |-> Vec(0, 1, 0)]
      [] view = "iso-back-left"   -> [right |-> Vec(-1, 0, -1), up |-> Vec(0, 1, 0)]

FollowsClaimedAxes(axes, view) ==
    /\ SignVec(axes.right) = ClaimedAxes(view).right
    /\ SignVec(axes.up) = ClaimedAxes(view).up
    /\ view \in IsoViews => axes.right.x * axes.right.x = axes.right.z * axes.right.z

\* C21 (SpecView): in every view a step to the right and a step up on the
\* screen go to the same signed world axes in screenDeltaToWorldDelta, in the
\* pan-offset mapping of setupCameraForView and (axis-aligned views) in
\* screenToWorld, and these are the axes listed for the view.
C21_ViewsAgreeOnAxes ==
    hLast.op = "viewAxes"
    => /\ FollowsClaimedAxes(hLast.delta, hLast.view)
       /\ FollowsClaimedAxes(hLast.pan, hLast.view)
       /\ hLast.view \in AxisViews => FollowsClaimedAxes(hLast.point, hLast.view)

\* C22 (SpecView): in an axis-aligned view the world point screenToWorld
\* gives for a pixel is drawn back at that pixel (in container coordinates,
\* canvasOffset further right and down), to within one pixel.
C22_ScreenToWorldRoundTrips ==
    hLast.op = "screenToWorldAt"
    => /\ hLast.screen.x - (hLast.screenX + canvasOffset) \in -1 .. 1
       /\ hLast.screen.y - (hLast.screenY + canvasOffset) \in -1 .. 1

\* C23 (SpecView): snapToGrid is idempotent: snapping a snapped value with
\* the same positive increment gives the snapped value again.
C23_SnapToGridIdempotent ==
    hLast.op = "snapToGrid" => hLast.twice = hLast.once

\* a value between two grid lines was snapped, downwards or upwards
C23_Witness ==
    /\ hLast.op = "snapToGrid"
    /\ hLast.once # hLast.value
    /\ hLast.gridSize > 1

\* the axis a mode of alignObjects or distributeObjects works on
AlignedAxis(mode) == IF mode \in { "left", "center", "right", "horizontal" } THEN "x" ELSE "y"

SizeOn(obj, axis) == IF axis = "x" THEN obj.dimensions.width ELSE obj.dimensions.height

\* the position a definition of alignment.ts reads, and its updates replace
Placed(obj, definition) == IF definition = "first" THEN obj.localPosition ELSE obj.position

\* the centre and the two edges of an object on an axis, the first
\* definition's position being the centre and the second's the lower corner
CenterOn(obj, definition, axis) ==
    IF definition = "first" THEN obj.localPosition[axis]
    ELSE obj.position[axis] + SizeOn(obj, axis) \div 2

LowEdge(obj, definition, axis) == CenterOn(obj, definition, axis) - SizeOn(obj, axis) \div 2

HighEdge(obj, definition, axis) == CenterOn(obj, definition, axis) + SizeOn(obj, axis) \div 2

\* the selection after the returned positions are applied
Applied(objects, updates, definition) ==
    [i \in DOMAIN objects |->
        IF \E u \in DOMAIN updates : updates[u].id = objects[i].id
        THEN LET position == updates[CHOOSE u \in DOMAIN updates :
                                        updates[u].id = objects[i].id].position
             IN  IF definition = "first" THEN [objects[i] EXCEPT !.localPosition = position]
                 ELSE [objects[i] EXCEPT !.position = position]
        ELSE objects[i]]

AlignedSelection == Applied(hLast.objects, hLast.updates, hLast.definition)

\* C24 (SpecAlign): after alignObjects(selection, 'center') is applied to two
\* or more objects they all have the same centre on x, and after 'middle' the
\* same centre on y.
C24_CenterAlignsCenters ==
    ( /\ hLast.op = "alignObjects"
      /\ hLast.mode \in { "center", "middle" }
      /\ Len(hLast.objects) >= 2 )
    => \A i, j \in DOMAIN AlignedSelection :
          CenterOn(AlignedSelection[i], hLast.definition, AlignedAxis(hLast.mode))
            = CenterOn(AlignedSelection[j], hLast.definition, AlignedAxis(hLast.mode))

\* objects of different widths and different centres were centred by the
\* definition that reads corners
C24_Witness ==
    /\ hLast.op = "alignObjects"
    /\ hLast.mode = "center"
    /\ hLast.definition = "second"
    /\ Len(hLast.objects) >= 3
    /\ \E i, j \in DOMAIN hLast.objects :
          /\ CenterOn(hLast.objects[i], "second", "x") # CenterOn(hLast.objects[j], "second", "x")
          /\ hLast.objects[i].dimensions.width # hLast.objects[j].dimensions.width
    /\ \A i, j \in DOMAIN AlignedSelection :
          CenterOn(AlignedSelection[i], "second", "x") = CenterOn(AlignedSelection[j], "second", "x")

\* the edge of an object that a mode of alignObjects lines up
AlignedEdge(obj, definition, mode) ==
    IF mode \in { "left", "bottom" } THEN LowEdge(obj, definition, AlignedAxis(mode))
    ELSE HighEdge(obj, definition, AlignedAxis(mode))

\* the extremum of those edges over a selection: the least left or bottom
\* edge, the greatest right or top edge
ExtremeEdge(objects, definition, mode) ==
    LET edges == { AlignedEdge(objects[i], definition, mode) : i \in DOMAIN objects }
    IN  IF mode \in { "left", "bottom" }
        THEN CHOOSE e \in edges : \A f \in edges : e <= f
        ELSE CHOOSE e \in edges : \A f \in edges : e >= f

\* C25 (SpecAlign): after alignObjects' result for left, right, top or bottom
\* is applied to two or more objects, the corresponding edge of every object
\* (centre minus or plus half its size) is the extremum of those edges before
\* the call.
C25_EdgesMeetExtremum ==
    ( /\ hLast.op = "alignObjects"
      /\ hLast.mode \in { "left", "right", "top", "bottom" }
      /\ Len(hLast.objects) >= 2 )
    => \A i \in DOMAIN AlignedSelection :
          AlignedEdge(AlignedSelection[i], hLast.definition, hLast.mode)
            = ExtremeEdge(hLast.objects, hLast.definition, hLast.mode)

\* objects of different sizes whose edges differed were lined up on the
\* right or the top by the definition that reads centres
C25_Witness ==
    /\ hLast.op = "alignObjects"
    /\ hLast.mode \in { "right", "top" }
    /\ hLast.definition = "first"
    /\ \E i, j \in DOMAIN hLast.objects :
          /\ AlignedEdge(hLast.objects[i], "first", hLast.mode)
               # AlignedEdge(hLast.objects[j], "first", hLast.mode)
          /\ SizeOn(hLast.objects[i], AlignedAxis(hLast.mode))
               # SizeOn(hLast.objects[j], AlignedAxis(hLast.mode))
    /\ \E i \in DOMAIN hLast.objects :
          Placed(AlignedSelection[i], "first") # Placed(hLast.objects[i], "first")

\* C26 (SpecAlign): every position alignObjects returns differs from the
\* object's current position at most on the aligned axis, x for left, center
\* and right, y for top, middle and bottom.
C26_OnlyAlignedAxisChanges ==
    hLast.op = "alignObjects"
    => \A u \in DOMAIN hLast.updates :
          \A i \in DOMAIN hLast.objects :
             hLast.objects[i].id = hLast.updates[u].id
             => \A axis \in { "x", "y", "z" } \ { AlignedAxis(hLast.mode) } :
                   hLast.updates[u].position[axis]
                     = Placed(hLast.objects[i], hLast.definition)[axis]

\* a returned position differs from the current one, on the aligned axis,
\* for an object away from the origin on the other two axes
C26_Witness ==
    /\ hLast.op = "alignObjects"
    /\ hLast.definition = "first"
    /\ \E u \in DOMAIN hLast.updates, i \in DOMAIN hLast.objects :
          /\ hLast.objects[i].id = hLast.updates[u].id
          /\ hLast.updates[u].position # hLast.objects[i].localPosition
          /\ \A axis \in { "x", "y", "z" } \ { AlignedAxis(hLast.mode) } :
                hLast.objects[i].localPosition[axis] # 0

\* the centres of a selection on an axis, as a set and in ascending order
CentersOn(objects, definition, axis) ==
    { CenterOn(objects[i], definition, axis) : i \in DOMAIN objects }

SortedCenters(objects, definition, axis) ==
    LET center(i) == CenterOn(objects[i], definition, axis)
    IN  sort([i \in DOMAIN objects |-> center(i)], [i \in DOMAIN objects |-> center(i)])

LeastOf(S) == CHOOSE e \in S : \A f \in S : e <= f

GreatestOf(S) == CHOOSE e \in S : \A f \in S : e >= f

DistributedAxis == AlignedAxis(hLast.mode)

\* C27 (SpecAlign): after distributeObjects' result is applied to three or
\* more objects whose smallest and largest centres on the axis differ, the
\* centres in ascending order are equally spaced, and an object with the
\* smallest centre and one with the largest are where they were.
C27_DistributeSpacesCenters ==
    ( /\ hLast.op = "distributeObjects"
      /\ Len(hLast.objects) >= 3
      /\ LeastOf(CentersOn(hLast.objects, hLast.definition, DistributedAxis))
           # GreatestOf(CentersOn(hLast.objects, hLast.definition, DistributedAxis)) )
    => LET before == hLast.objects
           after == AlignedSelection
           centers == SortedCenters(after, hLast.definition, DistributedAxis)
           least == LeastOf(CentersOn(before, hLast.definition, DistributedAxis))
           greatest == GreatestOf(CentersOn(before, hLast.definition, DistributedAxis))
       IN  /\ \A k \in 1 .. Len(centers) - 2 :
                 centers[k + 1] - centers[k] = centers[k + 2] - centers[k + 1]
           /\ \E i \in DOMAIN before :
                 /\ CenterOn(before[i], hLast.definition, DistributedAxis) = least
                 /\ after[i] = before[i]
           /\ \E i \in DOMAIN before :
                 /\ CenterOn(before[i], hLast.definition, DistributedAxis) = greatest
                 /\ after[i] = before[i]

\* the same statement for the first definition alone
FirstDefinitionSpacesCenters ==
    hLast.op = "distributeObjects" /\ hLast.definition = "first"
    => C27_DistributeSpacesCenters

\* C28 (SpecAlign): distributeObjects returns an empty update map when the
\* selection has fewer than three objects or the first and the last of the
\* sorted centres on the axis coincide.
C28_DistributeNoOp ==
    ( /\ hLast.op = "distributeObjects"
      /\ \/ Len(hLast.objects) < 3
         \/ LeastOf(CentersOn(hLast.objects, hLast.definition, DistributedAxis))
              = GreatestOf(CentersOn(hLast.objects, hLast.definition, DistributedAxis)) )
    => hLast.updates = <<>>

\* the same statement for the first definition alone
FirstDefinitionNoOp ==
    hLast.op = "distributeObjects" /\ hLast.definition = "first"
    => C28_DistributeNoOp

\* the ids of the objects a user action changed or removed
ChangedIds(before, after) ==
    { before[i].id : i \in { j \in DOMAIN before :
                                \A k \in DOMAIN after : after[k] # before[j] } }

MultiObjectActions == { "align", "distribute", "nudge", "delete" }

\* C29 (SpecEdit): one undo right after a single user action that changed two
\* or more objects (toolbar align or distribute, an arrow-key nudge, deleting
\* the selection) brings all of them back to their state before that action.
C29_OneUndoRestoresAll ==
    ( /\ last.op = "undo"
      /\ last.previous.op \in MultiObjectActions
      /\ Cardinality(ChangedIds(last.previous.before.objects,
                                last.previous.after.objects)) >= 2 )
    => Active.objects = last.previous.before.objects

\* C30 (SpecOpen): whatever createTab, newProject, loadProject and closeTab
\* calls are made, no more than five tabs are open.
C30_AtMostFiveTabs == Len(tabs) <= TabLimit

\* C31 (Spec): after the store's updateObjectPosition(id, W) on an existing
\* object, computeWorldTransform(id).position is W.
C31_UpdateObjectPositionSetsWorld ==
    ( /\ last.op = "updateObjectPosition"
      /\ IsObjectIn(last.nodeId, last.before.objects)
      /\ ~computeWorldTransformOverflows(last.nodeId, last.before.objects,
                                         last.before.assemblies)
      /\ ~computeWorldTransformOverflows(last.nodeId, Active.objects, Active.assemblies) )
    => computeWorldTransform(last.nodeId, Active.objects, Active.assemblies).position
         = last.worldPosition

\* the nodes that have id on the parentId chain above them
NodesBelow(id, objects, assemblies) ==
    { n \in NodeIds(objects, assemblies) : id \in AncestorSet(n, objects, assemblies) }

\* C32 (SpecHierarchy): in an acyclic hierarchy whose childIds and parentId
\* links agree, getDescendants(nodeId) lists exactly the nodes that have
\* nodeId on their parentId chain, each once.
C32_GetDescendantsIsExact ==
    ( /\ hLast.op = "getDescendants"
      /\ IsForest(hLast.objects, hLast.assemblies)
      /\ LinksAgree(hLast.objects, hLast.assemblies) )
    => /\ Range(hLast.result) = NodesBelow(hLast.nodeId, hLast.objects, hLast.assemblies)
       /\ Len(hLast.result) = Cardinality(Range(hLast.result))

\* an object parents an assembly that lists a child of its own, and both
\* were returned
C32_Witness ==
    /\ hLast.op = "getDescendants"
    /\ IsForest(hLast.objects, hLast.assemblies)
    /\ LinksAgree(hLast.objects, hLast.assemblies)
    /\ IsObject(hLast.nodeId, hLast.objects)
    /\ Len(hLast.result) >= 2
    /\ \E a \in Range(hLast.assemblies) :
          /\ a.parentId = hLast.nodeId
          /\ a.childIds # <<>>
          /\ a.id \in Range(hLast.result)
          /\ Range(a.childIds) \subseteq Range(hLast.result)

\* C33 (Spec): in every document the store's operations reach from an empty
\* one, computeWorldTransform, getAncestors and getDescendants terminate for
\* every node id, within a number of steps bounded by the size of the
\* hierarchy.
C33_TraversalsTerminate ==
    HasActiveTab =>
        \A id \in KnownIds :
            /\ ~computeWorldTransformOverflows(id, Active.objects, Active.assemblies)
            /\ ~getAncestorsHangs(id, Active.objects, Active.assemblies)
            /\ ~getDescendantsHangs(id, Active.objects, Active.assemblies)

\* the objects the last createAssembly grouped: those whose parentId is now
\* the id the new assembly was given
GroupedObjects ==
    { o \in Range(Active.objects) : o.parentId = nextId - 1 }

\* C34 (Spec): createAssembly leaves computeWorldTransform(c).position of
\* every grouped object c as it was, whatever its previous parent.
C34_CreateAssemblyKeepsWorldPosition ==
    ( /\ last.op = "createAssembly"
      /\ \A id \in KnownIds :
            /\ ~computeWorldTransformOverflows(id, last.before.objects, last.before.assemblies)
            /\ ~computeWorldTransformOverflows(id, Active.objects, Active.assemblies) )
    => \A c \in GroupedObjects :
          computeWorldTransform(c.id, Active.objects, Active.assemblies).position
            = computeWorldTransform(c.id, last.before.objects, last.before.assemblies).position

\* how often an id occurs in a list
Occurrences(s, e) == Cardinality({ i \in DOMAIN s : s[i] = e })

IsPermutation(s, t) ==
    /\ Len(s) = Len(t)
    /\ \A e \in Range(s) \cup Range(t) : Occurrences(s, e) = Occurrences(t, e)

\* C35 (SpecHierarchy): for an assembly parentId and any fromIndex and
\* toIndex, reorderChildren leaves that assembly's childIds a permutation of
\* what they were and changes no other assembly and no object.
C35_ReorderIsPermutation ==
    ( /\ hLast.op = "reorderChildren"
      /\ \E a \in Range(hLast.assemblies) : a.id = hLast.newParentId )
    => /\ hObjects = hLast.objects
       /\ Len(hAssemblies) = Len(hLast.assemblies)
       /\ \A i \in DOMAIN hAssemblies :
             IF hLast.assemblies[i].id = hLast.newParentId
             THEN /\ IsPermutation(hAssemblies[i].childIds, hLast.assemblies[i].childIds)
                  /\ [hAssemblies[i] EXCEPT !.childIds = <<>>]
                       = [hLast.assemblies[i] EXCEPT !.childIds = <<>>]
             ELSE hAssemblies[i] = hLast.assemblies[i]

\* the same statement for indices that lie within the childIds
ReorderInRangeIsPermutation ==
    ( /\ hLast.op = "reorderChildren"
      /\ \E a \in Range(hLast.assemblies) :
            /\ a.id = hLast.newParentId
            /\ hLast.result[1] \in 0 .. Len(a.childIds) - 1 )
    => C35_ReorderIsPermutation

\* C36 (SpecShortcuts): after any sequence of createTab, of switchToTab and
\* closeTab from the tab bar and of the tab shortcuts Cmd+W, Cmd+Shift+[ and
\* Cmd+Shift+], there is at least one tab and activeTabIndex names one of the
\* tabs.
C36_ActiveTabIndexIsValid ==
    /\ Len(tabs) >= 1
    /\ activeTabIndex \in 1 .. Len(tabs)

\* the same while every shortcut so far was pressed with the listener's
\* tabs and activeTabIndex equal to the store's
CurrentListenerKeepsIndexValid ==
    (ui.phase = "tabs" /\ last.current) =>
        (Len(tabs) >= 1 /\ activeTabIndex \in 1 .. Len(tabs))

SelectionNamesObjects(tab) ==
    \A i \in 1 .. Len(tab.selectedObjectIds) :
        IsObjectIn(tab.selectedObjectIds[i], tab.objects)

\* C37 (SpecSelect): after any sequence of store calls (selectObject and
\* selectAssemblyObjects of nodes that are there, removeObject, deleteNode,
\* undo, redo), every id in the active tab's selectedObjectIds is the id of an
\* object of that tab.
C37_SelectionNamesObjects ==
    HasActiveTab => SelectionNamesObjects(Active)

\* selectObject and selectAssemblyObjects select objects that exist
SelectingKeepsSelectionValid ==
    (/\ HasActiveTab
     /\ last.op \in {"selectObject", "selectAssemblyObjects"}
     /\ SelectionNamesObjects(last.before)) => SelectionNamesObjects(Active)

\* the ids of the objects and assemblies a tab shows
ShownIds(tab) ==
    {tab.objects[i].id : i \in 1 .. Len(tab.objects)}
        \cup {tab.assemblies[i].id : i \in 1 .. Len(tab.assemblies)}

\* C38 (SpecReplace): right after loadProject into the current tab or
\* newProject in the current tab, that tab's undo and redo stacks are empty;
\* and after any later edits, undo() and redo() the tab shows no object and
\* no assembly of the document that was open before.
C38_ReplacedDocumentIsGone ==
    /\ last.op \in {"loadProject", "newProject"} =>
           (Active.undoStack = <<>> /\ Active.redoStack = <<>>)
    /\ (ui.phase = "replace" /\ ui.firstId > 0) =>
           \A id \in ShownIds(Active) : id >= ui.firstId

\* an undo that restored a snapshot, after a replacement of a document that
\* had both stacks filled
C38_Witness ==
    /\ ui.phase = "replace" /\ ui.firstId > 0
    /\ Len(EditedTab.undoStack) > 0 /\ Len(EditedTab.redoStack) > 0
    /\ last.op = "undo"
    /\ Len(last.before.undoStack) > 0
    /\ Active # last.before

\* the tabs that the completion of a write changed
MarkedTabs == {i \in DOMAIN tabs : tabs[i] # last.before[i]}

\* C39 (SpecAutoSave): when a write of the auto-save completes, after any
\* edits and tab switches made while it was in flight, a tab that is marked
\* saved (hasUnsavedChanges false, currentFilePath the written path) is the
\* tab whose content was written, and its objects and assemblies are those
\* that were written.
C39_MarkedTabIsTheWrittenOne ==
    last.op = "markSaved" =>
        \A i \in MarkedTabs :
            /\ i = last.write.tab
            /\ tabs[i].objects = last.write.projectFile.objects
            /\ tabs[i].assemblies = last.write.projectFile.assemblies

\* a write that completes with neither an edit nor a tab switch since it
\* began marks the written tab, with the written content
QuietWriteMarksWrittenTab ==
    (/\ last.op = "markSaved"
     /\ last.activeTabIndex = last.write.tab
     /\ last.before[last.write.tab].objects = last.write.projectFile.objects) =>
        \A i \in MarkedTabs :
            /\ i = last.write.tab
            /\ tabs[i].objects = last.write.projectFile.objects
            /\ tabs[i].assemblies = last.write.projectFile.assemblies

====
